---- MODULE Spec2Model ----
(***************************************************************************)
(* A model of zod-form-react's Document Sync Engine: the useFirestoreForm  *)
(* hook of src/src/firebase/hooks.ts, one mounted binding of a form to a   *)
(* Firestore document, together with the remote store it talks to.         *)
(*                                                                         *)
(* JavaScript values are tagged pairs <<tag, payload>>:                    *)
(*   <<"str", s>>  <<"null", "null">>  <<"Timestamp", n>>  <<"Date", n>>   *)
(*   <<"serverTimestamp", 0>>  <<"arr", sequence>>  <<"obj", fields>>      *)
(* where fields is a function from property names to values.  The form's  *)
(* value tree, a document's data and a write's payload are such field      *)
(* functions.                                                              *)
(***************************************************************************)
EXTENDS Integers, Sequences, FiniteSets, TLC

VARIABLES
    cfg,            \* the hook's configuration (props), fixed for the binding
    mounted,        \* the component using the hook is mounted
    loading,        \* useState loading
    saving,         \* useState saving
    error,          \* useState error: "none" or the kind of the Error held
    currentDocId,   \* useState currentDocId, reported as documentId
    values,         \* the form's value tree (react-hook-form)
    timer,          \* the timeout behind autoSaveTimeoutRef
    subscribed,     \* the onSnapshot listener is attached
    snapQueue,      \* snapshots the store has emitted, not yet delivered
    saves,          \* the saveToFirestore calls awaiting their write, in start order
    started,        \* how many saveToFirestore calls there have been
    store,          \* the remote documents
    now,            \* the server's clock, advanced by every applied write
    remoteLeft,     \* writes other clients may still make
    elapsed,        \* history: ticks since the form's values last changed
    burst,          \* history: changes that (re)started the current timeout, up to 2
    burstSaves,     \* history: saves the timer started since the last change
    rejected,       \* history: saveToFirestore promises that rejected
    unhandled,      \* history: rejected promises that nothing awaits or catches
    callLog,        \* history: the calls made to onSuccess and onError, in order
    lastSnapData,   \* history: data of the last existing snapshot delivered
    lastEdit,       \* history: the title set locally since that snapshot
    \* useFirebaseStorageUpload, one instance, and the transport behind it
    uploading,      \* useState uploading
    progress,       \* useState progress
    downloadURL,    \* useState downloadURL
    uploadError,    \* useState error: "none" or the kind of the Error held
    tasks,          \* the upload tasks created, in creation order
    received,       \* history: per task, the callbacks the consumer received
    selected,       \* history: the files given to handleFileChange
    multiple,       \* FirebaseStorageField's multiple prop
    fieldValue,     \* the form's value of the field, watch(name)
    \* the Field Mapper of the schema parser
    schema,         \* the schema node handed to mapZodTypeToFieldType
    mapped,         \* what it returned, NoResult before the call
    \* the rest of the schema parser, called with schema
    analysis,       \* what analyzeSchema returned, NotCalled before the call
    defaults,       \* what generateDefaultValues returned, NotCalled before the call
    candidate,      \* the data handed to validateWithSchema
    validation,     \* what validateWithSchema returned, NotCalled before the call
    \* useConditionalFields
    fieldDefs,      \* fields: the config of each field, by name
    formValues,     \* the current values of the form
    visibleFields   \* what the hook returned at the last render, NotCalled before it

hookVars == <<cfg, mounted, loading, saving, error, currentDocId, values, timer,
              subscribed, snapQueue, saves, started, store, now, remoteLeft,
              elapsed, burst, burstSaves, rejected, unhandled, callLog,
              lastSnapData, lastEdit>>

uploadVars == <<uploading, progress, downloadURL, uploadError, tasks, received,
                selected, multiple, fieldValue>>

mapperVars == <<schema, mapped>>

parserVars == <<analysis, defaults, candidate, validation>>

visibilityVars == <<fieldDefs, formValues, visibleFields>>

\* What the actions of useFirestoreForm leave alone.
elsewhere == <<uploadVars, mapperVars, parserVars, visibilityVars>>

vars == <<hookVars, uploadVars, mapperVars, parserVars, visibilityVars>>

(***************************** bounds **************************************)
MaxSaves == 2
MaxSavesListening == 1
MaxRemote == 1
AutoSaveDelay == 1
MaxTasks == 2
MaxTicks == 2
ChunkSize == 2
MaxChecks == 3
MaxWrappers == 2

(***************************** values **************************************)
NoId == "none"
NoRef == "none"
NoUser == "none"
NoData == <<"undefined", "undefined">>
NoEdit == "none"

Str(s) == <<"str", s>>
Null == <<"null", "null">>
Timestamp(n) == <<"Timestamp", n>>
Date(n) == <<"Date", n>>
Arr(s) == <<"arr", s>>
Obj(f) == <<"obj", f>>
serverTimestamp == <<"serverTimestamp", 0>>

EmptyObject == [k \in {} |-> Null]

\* { ...f, [k]: v }
Put(f, k, v) == [x \in DOMAIN f \cup {k} |-> IF x = k THEN v ELSE f[x]]

\* { ...f, ...g }
Spread(f, g) == [x \in DOMAIN f \cup DOMAIN g |-> IF x \in DOMAIN g THEN g[x] ELSE f[x]]

Has(f, k) == k \in DOMAIN f

RECURSIVE transformTimestamps(_)
transformTimestamps(data) ==
    CASE data[1] \notin {"Timestamp", "Date", "arr", "obj"} -> data
      [] data[1] = "Timestamp" -> Date(data[2])
      [] data[1] = "arr" ->
            Arr([i \in DOMAIN data[2] |-> transformTimestamps(data[2][i])])
      [] data[1] = "Date" -> Obj(EmptyObject)
      [] data[1] = "obj" ->
            Obj([k \in DOMAIN data[2] |-> transformTimestamps(data[2][k])])

\* A sample transformAfterLoad: drop the bookkeeping before it reaches the form.
TransformAfterLoad(f) == [k \in DOMAIN f \ {"_metadata"} |-> f[k]]

\* A sample transformBeforeSave: tag the payload with a schema version.
TransformBeforeSave(f) == Put(f, "schemaVersion", Str("1"))


(***************************** the remote store ****************************)
\* The document the tests and the spec's scenarios bind to, and the ids addDoc
\* hands out, in the order it hands them out.
ExistingDoc == "abc"
GeneratedIds == <<"g1", "g2", "g3", "g4", "g5">>

\* The document as another client created it before this binding.
InitialData ==
    [title |-> Str("y"),
     due |-> Timestamp(0),
     log |-> Arr(<<Timestamp(0)>>),
     _metadata |-> Obj([createdAt |-> Timestamp(0), createdBy |-> Str("u0"),
                        updatedAt |-> Timestamp(0), updatedBy |-> Str("u0")])]

\* The server replaces the serverTimestamp() sentinel by its own time.
RECURSIVE ResolveSentinels(_, _)
ResolveSentinels(v, t) ==
    CASE v[1] = "serverTimestamp" -> Timestamp(t)
      [] v[1] = "arr" -> Arr([i \in DOMAIN v[2] |-> ResolveSentinels(v[2][i], t)])
      [] v[1] = "obj" -> Obj([k \in DOMAIN v[2] |-> ResolveSentinels(v[2][k], t)])
      [] OTHER -> v

ResolveFields(f, t) == ResolveSentinels(Obj(f), t)[2]

\* setDoc(ref, data, { merge: true }): maps are merged field by field, at
\* every depth; anything else is replaced.
RECURSIVE MergeFields(_, _)
MergeFields(old, new) ==
    [k \in DOMAIN old \cup DOMAIN new |->
        IF k \notin DOMAIN new THEN old[k]
        ELSE IF k \in DOMAIN old /\ old[k][1] = "obj" /\ new[k][1] = "obj"
             THEN Obj(MergeFields(old[k][2], new[k][2]))
             ELSE new[k]]

setDoc(st, id, payload, t) ==
    Put(st, id, IF id \in DOMAIN st
                THEN MergeFields(st[id], ResolveFields(payload, t))
                ELSE ResolveFields(payload, t))

\* updateDoc(ref, data): every top-level field named in data is replaced as a
\* whole (a nested map is not merged); the document must exist.
updateDoc(st, id, payload, t) ==
    Put(st, id, Spread(st[id], ResolveFields(payload, t)))

\* addDoc(collection, data): a new document under the next generated id.
NextGeneratedId(st) == GeneratedIds[Cardinality(DOMAIN st \ {ExistingDoc}) + 1]

addDoc(st, payload, t) == Put(st, NextGeneratedId(st), ResolveFields(payload, t))

\* What onSnapshot reports of document id in store st.
SnapshotOf(st, id) ==
    [exists |-> id \in DOMAIN st,
     id |-> id,
     data |-> IF id \in DOMAIN st THEN st[id] ELSE EmptyObject]

(***************************** the hook ************************************)
\* The load effect subscribes unless there is nothing to subscribe to.
Subscribes(c) == ~(c.documentRef = NoRef /\ (~c.collection \/ c.documentId = NoId))

\* The configurations explored.  A document is named by a reference or by
\* collection and id, not both; an option the hook never reads under a
\* configuration (the user without metadata, transformAfterLoad without a
\* listener) is left out.
Configs ==
    {c \in [collection : BOOLEAN,
            documentId : {NoId, ExistingDoc},
            documentRef : {NoRef, ExistingDoc},
            user : {NoUser, "u1"},
            autoSave : BOOLEAN,
            includeMetadata : BOOLEAN,
            transformBeforeSave : BOOLEAN,
            transformAfterLoad : BOOLEAN] :
        /\ c.documentRef # NoRef => ~c.collection /\ c.documentId = NoId
        /\ ~c.includeMetadata => c.user = NoUser
        /\ ~Subscribes(c) => ~c.transformAfterLoad}

\* How many saves are explored under configuration c.
SaveBudget(c) == IF Subscribes(c) THEN MaxSavesListening ELSE MaxSaves

\* The form's schema: an object with a non-empty title.
Valid(v) == Has(v, "title") /\ v["title"][1] = "str" /\ v["title"][2] # ""

LocalTitles == {"", "x"}
SaveArguments == {NoData, Obj([title |-> Str("x")])}

\* documentRef || doc(firestore, collectionName, documentId)
SubscribedDoc(c) == IF c.documentRef # NoRef THEN c.documentRef ELSE c.documentId

NoTimer == [pending |-> FALSE, remaining |-> 0, data |-> EmptyObject, cause |-> "none"]

\* WatchCallback that leaves a pending timeout running (a throttle).
WatchCallback_Throttle(t, data, cause) ==
    IF t.pending
    THEN [t EXCEPT !.data = data, !.cause = cause]
    ELSE [pending |-> TRUE, remaining |-> AutoSaveDelay, data |-> data, cause |-> cause]

\* The form.watch callback of the auto-save effect: clear the pending timeout
\* and set a new one that carries the values just reported.
WatchCallback(t, data, cause) ==
    [pending |-> TRUE, remaining |-> AutoSaveDelay, data |-> data, cause |-> cause]

\* react-hook-form reports a change of the values to the watch callback while
\* the auto-save effect is subscribed.
NotifyWatch(c, t, data, cause) ==
    IF c.autoSave THEN WatchCallback(t, data, cause) ELSE t

HookInit ==
    /\ cfg \in Configs
    /\ mounted = TRUE
    /\ loading = (cfg.documentId # NoId \/ cfg.documentRef # NoRef)
    /\ saving = FALSE
    /\ error = "none"
    /\ currentDocId = cfg.documentId
    /\ values = EmptyObject
    /\ timer = NoTimer
    /\ store \in {EmptyObject, [d \in {ExistingDoc} |-> InitialData]}
    /\ subscribed = Subscribes(cfg)
    /\ snapQueue = IF Subscribes(cfg)
                   THEN <<SnapshotOf(store, SubscribedDoc(cfg))>>
                   ELSE <<>>
    /\ saves = <<>>
    /\ started = 0
    /\ now = 1
    /\ remoteLeft = MaxRemote
    /\ elapsed = 0
    /\ burst = 0
    /\ burstSaves = 0
    /\ rejected = 0
    /\ unhandled = 0
    /\ callLog = <<>>
    /\ lastSnapData = NoData
    /\ lastEdit = NoEdit


(***************************** saveToFirestore *****************************)
\* user?.uid || null
Uid(c) == IF c.user = NoUser THEN Null ELSE Str(c.user)

\* Metadata with the creation stamps left out.
Metadata_NoCreation(c, docId) ==
    [updatedAt |-> serverTimestamp, updatedBy |-> Uid(c)]

\* The _metadata the save stamps; docId is the currentDocId its closure holds.
Metadata(c, docId) ==
    Spread([updatedAt |-> serverTimestamp, updatedBy |-> Uid(c)],
           IF docId # NoId
           THEN EmptyObject
           ELSE [createdAt |-> serverTimestamp, createdBy |-> Uid(c)])

\* dataToSave before the custom transformation.
AssembledPayload(c, formData, docId) ==
    IF c.includeMetadata
    THEN Put(formData, "_metadata", Obj(Metadata(c, docId)))
    ELSE formData

\* DataToSave that skips the custom transformation.
DataToSave_Untransformed(c, formData, docId) == AssembledPayload(c, formData, docId)

\* dataToSave as handed to the write call.
DataToSave(c, formData, docId) ==
    IF c.transformBeforeSave
    THEN TransformBeforeSave(AssembledPayload(c, formData, docId))
    ELSE AssembledPayload(c, formData, docId)

\* WritePath with a save that creates a document whenever it has no id.
WritePath_NoThrow(c, docId) ==
    IF c.documentRef # NoRef THEN "setDoc"
    ELSE IF c.collection /\ docId # NoId THEN "updateDoc"
    ELSE "addDoc"

\* Which write the save makes.
WritePath(c, docId) ==
    IF c.documentRef # NoRef THEN "setDoc"
    ELSE IF c.collection /\ docId # NoId THEN "updateDoc"
    ELSE IF c.collection THEN "addDoc"
    ELSE "throw"

WriteTarget(c, docId) ==
    IF c.documentRef # NoRef THEN c.documentRef ELSE docId

\* data || form.getValues()
FormData(data) == IF data = NoData THEN values ELSE data[2]

\* CatchBlock that keeps the failure to itself: no state, no callback.
CatchBlock_Silent(save, origin, err) ==
    /\ error' = error
    /\ saving' = IF mounted THEN FALSE ELSE saving
    /\ callLog' = callLog
    /\ rejected' = rejected + 1
    /\ unhandled' = IF origin = "timer" THEN unhandled + 1 ELSE unhandled

\* The catch block of the save numbered save: the error is kept in state,
\* saving is cleared, onError is called with the error and the error is thrown
\* again, so the promise saveToFirestore returned rejects.  The caller of an
\* explicit save holds that promise; the timeout callback drops it.  State
\* setters of an unmounted component do nothing.
CatchBlock(save, origin, err) ==
    /\ error' = IF mounted THEN err ELSE error
    /\ saving' = IF mounted THEN FALSE ELSE saving
    /\ callLog' = Append(callLog, [callback |-> "onError", save |-> save, argument |-> Str(err)])
    /\ rejected' = rejected + 1
    /\ unhandled' = IF origin = "timer" THEN unhandled + 1 ELSE unhandled

\* saveToFirestore(data) up to its first await, run from a closure that holds
\* docId as currentDocId.  With nothing to write to, the throw is caught at
\* once.
saveToFirestore(data, docId, origin) ==
    LET path == WritePath(cfg, docId)
    IN  /\ started' = started + 1
        /\ IF path = "throw"
           THEN /\ saves' = saves
                /\ CatchBlock(started + 1, origin, "config")
           ELSE /\ saves' = Append(saves,
                           [id |-> started + 1,
                            origin |-> origin,
                            path |-> path,
                            target |-> WriteTarget(cfg, docId),
                            formData |-> FormData(data),
                            payload |-> DataToSave(cfg, FormData(data), docId)])
                /\ saving' = TRUE
                /\ error' = "none"
                /\ UNCHANGED <<rejected, unhandled, callLog>>

\* The caller invokes the saveToFirestore of the latest render.
ExplicitSave(data) ==
    /\ mounted
    /\ started < SaveBudget(cfg)
    /\ saveToFirestore(data, currentDocId, "explicit")
    /\ UNCHANGED <<cfg, mounted, loading, currentDocId, values, timer, subscribed,
                   snapQueue, store, now, remoteLeft>>
    /\ UNCHANGED <<elapsed, burst, burstSaves, lastSnapData, lastEdit>>
    /\ UNCHANGED elsewhere

\* The store after the write of save i.
WrittenStore(i) ==
    CASE saves[i].path = "setDoc" -> setDoc(store, saves[i].target, saves[i].payload, now)
      [] saves[i].path = "updateDoc" -> updateDoc(store, saves[i].target, saves[i].payload, now)
      [] saves[i].path = "addDoc" -> addDoc(store, saves[i].payload, now)

WrittenId(i) ==
    IF saves[i].path = "addDoc" THEN NextGeneratedId(store) ELSE saves[i].target

\* The store sends a listener the new state of the document it listens to.
Emit(st, id) ==
    IF subscribed /\ id = SubscribedDoc(cfg)
    THEN Append(snapQueue, SnapshotOf(st, id))
    ELSE snapQueue

\* saves without its i-th element
Without(i) == [j \in 1..(Len(saves) - 1) |-> IF j < i THEN saves[j] ELSE saves[j + 1]]

\* OnSuccessArgument that hands over what was written.
OnSuccessArgument_Payload(save) == save.payload

\* onSuccess(formData)
OnSuccessArgument(save) == save.formData

\* The awaited write of save i succeeded: the store applies it, a listener on
\* the written document is sent the new snapshot, and the rest of the try block
\* runs, onSuccess included.  State setters of an unmounted component do
\* nothing.
WriteSucceeds(i) ==
    /\ saves[i].path = "updateDoc" => saves[i].target \in DOMAIN store
    /\ store' = WrittenStore(i)
    /\ now' = now + 1
    /\ snapQueue' = Emit(store', WrittenId(i))
    /\ saves' = Without(i)
    /\ currentDocId' = IF mounted /\ saves[i].path = "addDoc"
                       THEN WrittenId(i)
                       ELSE currentDocId
    /\ callLog' = Append(callLog, [callback |-> "onSuccess", save |-> saves[i].id,
                                   argument |-> Obj(OnSuccessArgument(saves[i]))])
    /\ saving' = IF mounted THEN FALSE ELSE saving
    /\ UNCHANGED <<cfg, mounted, loading, error, values, timer, subscribed, started,
                   remoteLeft>>
    /\ UNCHANGED <<elapsed, burst, burstSaves, rejected, unhandled, lastSnapData,
                   lastEdit>>
    /\ UNCHANGED elsewhere

\* The awaited write of save i failed: the catch block.
WriteFails(i) ==
    /\ saves' = Without(i)
    /\ CatchBlock(saves[i].id, saves[i].origin, "write")
    /\ UNCHANGED <<cfg, mounted, loading, currentDocId, values, timer, subscribed,
                   snapQueue, started, store, now, remoteLeft>>
    /\ UNCHANGED <<elapsed, burst, burstSaves, lastSnapData, lastEdit>>
    /\ UNCHANGED elsewhere

(***************************** the load effect *****************************)
\* The data a snapshot puts into the form.
LoadedData(c, data) ==
    IF c.transformAfterLoad
    THEN TransformAfterLoad(transformTimestamps(Obj(data))[2])
    ELSE transformTimestamps(Obj(data))[2]

\* FormReset that keeps what the form already holds.
FormReset_KeepsEdits(old, data) == Spread(data, old)

\* form.reset(data): the form's values become data.
FormReset(old, data) == data

\* The next callback of onSnapshot, on the oldest undelivered snapshot.
\* form.reset reports the new values to the watch callback.
OnSnapshotNext ==
    /\ subscribed
    /\ snapQueue # <<>>
    /\ LET snapshot == Head(snapQueue)
       IN  IF snapshot.exists
           THEN /\ values' = FormReset(values, LoadedData(cfg, snapshot.data))
                /\ currentDocId' = snapshot.id
                /\ timer' = NotifyWatch(cfg, timer, values', "snapshot")
                /\ elapsed' = 0
                /\ burst' = IF timer.pending THEN 2 ELSE 1
                /\ burstSaves' = 0
                /\ lastSnapData' = Obj(snapshot.data)
                /\ lastEdit' = NoEdit
           ELSE UNCHANGED <<values, currentDocId, timer, elapsed, burst, burstSaves,
                            lastSnapData, lastEdit>>
    /\ loading' = FALSE
    /\ snapQueue' = Tail(snapQueue)
    /\ UNCHANGED <<cfg, mounted, saving, error, subscribed, saves, started, store, now,
                   remoteLeft, rejected, unhandled, callLog>>
    /\ UNCHANGED elsewhere

\* The error callback of onSnapshot; the listener ends with it.
OnSnapshotError ==
    /\ subscribed
    /\ error' = "subscription"
    /\ loading' = FALSE
    /\ subscribed' = FALSE
    /\ snapQueue' = <<>>
    /\ UNCHANGED <<cfg, mounted, saving, currentDocId, values, timer, saves, started,
                   store, now, remoteLeft>>
    /\ UNCHANGED <<elapsed, burst, burstSaves, rejected, unhandled, callLog,
                   lastSnapData, lastEdit>>
    /\ UNCHANGED elsewhere

(***************************** the auto-save effect ************************)
\* The user edits the title field.
FormSetValue(title) ==
    /\ mounted
    /\ values' = Put(values, "title", Str(title))
    /\ timer' = NotifyWatch(cfg, timer, values', "edit")
    /\ elapsed' = 0
    /\ burst' = IF timer.pending THEN 2 ELSE 1
    /\ burstSaves' = 0
    /\ lastEdit' = title
    /\ UNCHANGED <<cfg, mounted, loading, saving, error, currentDocId, subscribed,
                   snapQueue, saves, started, store, now, remoteLeft, rejected,
                   unhandled, callLog, lastSnapData>>
    /\ UNCHANGED elsewhere

\* Time passes while a timeout is pending.
Tick ==
    /\ timer.pending
    /\ timer.remaining > 0
    /\ timer' = [timer EXCEPT !.remaining = @ - 1]
    /\ elapsed' = IF elapsed < AutoSaveDelay THEN elapsed + 1 ELSE elapsed
    /\ UNCHANGED <<cfg, mounted, loading, saving, error, currentDocId, values, subscribed,
                   snapQueue, saves, started, store, now, remoteLeft>>
    /\ UNCHANGED <<burst, burstSaves, rejected, unhandled, callLog, lastSnapData,
                   lastEdit>>
    /\ UNCHANGED elsewhere

\* TimerSaves without the validity check.
TimerSaves_Always(v) == TRUE

\* form.formState.isValid, as the timeout callback reads it.
TimerSaves(v) == Valid(v)

\* The timeout callback.  It calls the saveToFirestore of the render in which
\* the effect ran, the first one (the effect depends on autoSave, autoSaveDelay
\* and form only), whose closure holds the initial currentDocId.
AutoSaveTimerFires ==
    /\ timer.pending
    /\ timer.remaining = 0
    /\ timer' = NoTimer
    /\ IF TimerSaves(values)
       THEN /\ started < SaveBudget(cfg)
            /\ saveToFirestore(Obj(timer.data), cfg.documentId, "timer")
            /\ burstSaves' = burstSaves + 1
       ELSE UNCHANGED <<saves, started, saving, error, rejected, unhandled, callLog,
                        burstSaves>>
    /\ UNCHANGED <<cfg, mounted, loading, currentDocId, values, subscribed, snapQueue,
                   store, now, remoteLeft>>
    /\ UNCHANGED <<elapsed, burst, lastSnapData, lastEdit>>
    /\ UNCHANGED elsewhere

(***************************** the environment *****************************)
\* Another client changes the bound document.
RemoteChange ==
    /\ remoteLeft > 0
    /\ ExistingDoc \in DOMAIN store
    /\ store' = Put(store, ExistingDoc, Put(store[ExistingDoc], "title", Str("r")))
    /\ remoteLeft' = remoteLeft - 1
    /\ snapQueue' = Emit(store', ExistingDoc)
    /\ UNCHANGED <<cfg, mounted, loading, saving, error, currentDocId, values, timer,
                   subscribed, saves, started, now>>
    /\ UNCHANGED <<elapsed, burst, burstSaves, rejected, unhandled, callLog,
                   lastSnapData, lastEdit>>
    /\ UNCHANGED elsewhere

\* UnmountCleanup that cleans nothing up.
UnmountCleanup_None ==
    [subscribed |-> subscribed, snapQueue |-> snapQueue, timer |-> timer]

\* What the cleanups of the two effects leave: the listener detached, its
\* undelivered snapshots dropped, the pending timeout cleared.
UnmountCleanup ==
    [subscribed |-> FALSE, snapQueue |-> <<>>, timer |-> NoTimer]

Unmount ==
    /\ mounted
    /\ mounted' = FALSE
    /\ subscribed' = UnmountCleanup.subscribed
    /\ snapQueue' = UnmountCleanup.snapQueue
    /\ timer' = UnmountCleanup.timer
    /\ UNCHANGED <<cfg, loading, saving, error, currentDocId, values, saves, started,
                   store, now, remoteLeft>>
    /\ UNCHANGED <<elapsed, burst, burstSaves, rejected, unhandled, callLog,
                   lastSnapData, lastEdit>>
    /\ UNCHANGED elsewhere

(***************************** useFirebaseStorageUpload ********************)
Number(n) == <<"number", n>>
NaN == <<"NaN", 0>>
Undefined == <<"undefined", "undefined">>

FileNames == {"a", "b"}
FileSizes == {0, 2, 4}
Files == [name : FileNames, size : FileSizes]

\* The selections explored: one file, or two with different names.
FileLists ==
    {<<f>> : f \in Files} \cup
    {<<f, g>> : f \in {x \in Files : x.name = "a"}, g \in {x \in Files : x.name = "b"}}

\* ref(storage, `${path}/${Date.now()}_${file.name}`)
StorageRef(time, file) == <<time, file.name>>

\* What getDownloadURL resolves to for a reference.
DownloadURL(ref) == <<"url", ref>>

\* Percent without the scaling to a percentage.
Percent_Fraction(bytesTransferred, totalBytes) ==
    IF totalBytes = 0 THEN NaN ELSE Number(bytesTransferred \div totalBytes)

\* (snapshot.bytesTransferred / snapshot.totalBytes) * 100; the sizes explored
\* make the quotient exact.
Percent(bytesTransferred, totalBytes) ==
    IF totalBytes = 0 THEN NaN ELSE Number((bytesTransferred * 100) \div totalBytes)

UploadInit ==
    /\ uploading = FALSE
    /\ progress = Number(0)
    /\ downloadURL = Null
    /\ uploadError = "none"
    /\ tasks = <<>>
    /\ received = <<>>
    /\ selected = <<>>

\* The field as the form holds it when the component mounts: nothing yet, or
\* with multiple the reference of an earlier upload.
FieldInit ==
    /\ multiple \in BOOLEAN
    /\ fieldValue \in IF multiple
                      THEN {Undefined, Arr(<<DownloadURL(StorageRef(0, [name |-> "z"])) >>)}
                      ELSE {Undefined}

FieldUnused == multiple = FALSE /\ fieldValue = Undefined

\* uploadBytesResumable(storageRef, file, metadata): a running task.  Its
\* observers are closures of the render that called upload; closure is the
\* fieldValue that render's onComplete holds.
UploadTask(file, time, origin) ==
    [ref |-> StorageRef(time, file),
     closure |-> fieldValue,
     totalBytes |-> file.size,
     bytesTransferred |-> 0,
     emitted |-> <<>>,
     state |-> "running",
     origin |-> origin]

\* UploadSettles for an upload whose promise rejects.
UploadSettles_Rejected(file) == "rejected"

\* How the promise of upload(file) settles: upload awaits nothing, so it is
\* fulfilled as soon as the observers are registered, whatever the task does
\* later.
UploadSettles(file) == "fulfilled"

\* for (const file of fileArray) { await upload(file); }: the files upload is
\* called for.  A rejected await would leave the loop.
RECURSIVE LoopStarts(_)
LoopStarts(files) ==
    IF files = <<>> THEN <<>>
    ELSE IF UploadSettles(Head(files)) = "fulfilled"
         THEN <<Head(files)>> \o LoopStarts(Tail(files))
         ELSE <<Head(files)>>

\* upload(file) for each of files, called at the same instant by origin.
upload(files, origin) ==
    /\ uploading' = TRUE
    /\ uploadError' = "none"
    /\ progress' = Number(0)
    /\ tasks' = tasks \o [i \in 1..Len(files) |->
                            UploadTask(files[i], Len(tasks) + 1, origin)]
    /\ received' = received \o [i \in 1..Len(files) |-> <<>>]
    /\ UNCHANGED downloadURL

\* The consumer of the hook calls upload with one file.
Upload(file) ==
    /\ Len(tasks) < MaxTasks
    /\ upload(<<file>>, "direct")
    /\ UNCHANGED <<selected, multiple, fieldValue>>
    /\ UNCHANGED <<hookVars, mapperVars, parserVars, visibilityVars>>

\* FirebaseStorageField.handleFileChange with a non-empty selection.  The
\* previews it builds first are display state of the field only.  Every
\* await of the loop is on a promise already settled, so no event of the
\* transport comes between two calls of upload.
handleFileChange(files) ==
    /\ files # <<>>
    /\ selected = <<>>
    /\ Len(tasks) + Len(files) <= MaxTasks
    /\ upload(LoopStarts(files), "field")
    /\ selected' = files
    /\ UNCHANGED <<multiple, fieldValue>>
    /\ UNCHANGED <<hookVars, mapperVars, parserVars, visibilityVars>>

Deliver(t, callback, argument) ==
    received' = [received EXCEPT ![t] = Append(@, [callback |-> callback,
                                                   argument |-> argument])]

\* The next observer of 'state_changed': the transport reports how far task t
\* is.
StateChanged(t, bytes) ==
    /\ tasks[t].state = "running"
    /\ Len(tasks[t].emitted) < MaxTicks
    /\ bytes >= tasks[t].bytesTransferred
    /\ bytes <= tasks[t].totalBytes
    /\ tasks' = [tasks EXCEPT ![t].bytesTransferred = bytes,
                              ![t].emitted = Append(@, <<bytes, tasks[t].totalBytes>>)]
    /\ progress' = Percent(bytes, tasks[t].totalBytes)
    /\ Deliver(t, "onProgress", Percent(bytes, tasks[t].totalBytes))
    /\ UNCHANGED <<uploading, downloadURL, uploadError, selected, multiple, fieldValue>>
    /\ UNCHANGED <<hookVars, mapperVars, parserVars, visibilityVars>>

\* The error observer: the transfer of task t failed.
TaskFails(t) ==
    /\ tasks[t].state = "running"
    /\ tasks' = [tasks EXCEPT ![t].state = "failed"]
    /\ uploadError' = "storage"
    /\ uploading' = FALSE
    /\ Deliver(t, "onError", Str("storage"))
    /\ UNCHANGED <<progress, downloadURL, selected, multiple, fieldValue>>
    /\ UNCHANGED <<hookVars, mapperVars, parserVars, visibilityVars>>

\* The complete observer, up to its await: the transfer of task t is done and
\* the download URL is asked for.
TaskCompletes(t) ==
    /\ tasks[t].state = "running"
    /\ tasks[t].bytesTransferred = tasks[t].totalBytes
    /\ tasks' = [tasks EXCEPT ![t].state = "resolving"]
    /\ UNCHANGED <<uploading, progress, downloadURL, uploadError, received, selected,
                   multiple, fieldValue>>
    /\ UNCHANGED <<hookVars, mapperVars, parserVars, visibilityVars>>

\* The onComplete FirebaseStorageField gives the hook: what it sets the field
\* to, from the fieldValue its closure holds.
FieldOnComplete(closure, url) ==
    IF multiple
    THEN Arr((IF closure = Undefined THEN <<>> ELSE closure[2]) \o <<url>>)
    ELSE url

\* getDownloadURL resolved: the rest of the try block of the complete
\* observer.  The onComplete of an upload the field started writes the form.
UrlResolves(t) ==
    /\ tasks[t].state = "resolving"
    /\ tasks' = [tasks EXCEPT ![t].state = "done"]
    /\ downloadURL' = DownloadURL(tasks[t].ref)
    /\ uploading' = FALSE
    /\ Deliver(t, "onComplete", DownloadURL(tasks[t].ref))
    /\ fieldValue' = IF tasks[t].origin = "field"
                     THEN FieldOnComplete(tasks[t].closure, DownloadURL(tasks[t].ref))
                     ELSE fieldValue
    /\ UNCHANGED <<progress, uploadError, selected, multiple>>
    /\ UNCHANGED <<hookVars, mapperVars, parserVars, visibilityVars>>

\* getDownloadURL rejected: the catch block of the complete observer.
UrlFails(t) ==
    /\ tasks[t].state = "resolving"
    /\ tasks' = [tasks EXCEPT ![t].state = "failed"]
    /\ uploadError' = "url"
    /\ uploading' = FALSE
    /\ Deliver(t, "onError", Str("url"))
    /\ UNCHANGED <<progress, downloadURL, selected, multiple, fieldValue>>
    /\ UNCHANGED <<hookVars, mapperVars, parserVars, visibilityVars>>

(***************************** the Field Mapper ****************************)
Bool(b) == <<"bool", b>>

\* Schema nodes.  A node is a chain of wrappers, outermost first, around a
\* concrete node; a concrete node has its kind (the class of the zod type),
\* the checks of a string or number, the values of an enum or the options of
\* a union, the length bounds of an array and the class of an instanceof type.
Check(kind, value) == [kind |-> kind, value |-> value]

ConcreteNode(kind, checks, members) ==
    [kind |-> kind, checks |-> checks, values |-> members,
     minLength |-> Null, maxLength |-> Null, cls |-> "none", shape |-> <<>>]

SeqsUpTo(S, n) == UNION {[1..k -> S] : k \in 0..n}

StringChecks ==
    {Check("email", Null), Check("url", Null), Check("uuid", Null), Check("cuid", Null),
     Check("min", Number(5)), Check("min", Number(100)), Check("max", Number(200)),
     Check("regex", Str("^a"))}

NumberChecks ==
    {Check("min", Number(0)), Check("min", Number(1)), Check("max", Number(5)),
     Check("max", Number(11)), Check("int", Null), Check("multipleOf", Number(5))}

RecognizedKinds ==
    {"ZodString", "ZodNumber", "ZodBoolean", "ZodDate", "ZodEnum", "ZodNativeEnum",
     "ZodArray", "ZodObject", "ZodRecord", "ZodUnion", "ZodDiscriminatedUnion", "ZodBigInt"}

UnrecognizedKinds == {"ZodLiteral", "ZodAny", "ZodTuple", "ZodLazy"}

ConcreteNodes ==
    {ConcreteNode("ZodString", c, <<>>) : c \in SeqsUpTo(StringChecks, MaxChecks)} \cup
    {ConcreteNode("ZodNumber", c, <<>>) : c \in SeqsUpTo(NumberChecks, MaxChecks)} \cup
    {ConcreteNode("ZodEnum", <<>>, v) :
        v \in {<<"a", "b">>, <<"a", "b", "c", "d">>, <<"a", "b", "c", "d", "e">>}} \cup
    {ConcreteNode(k, <<>>, <<"a", "b">>) :
        k \in {"ZodNativeEnum", "ZodUnion", "ZodDiscriminatedUnion"}} \cup
    {[ConcreteNode("ZodArray", <<>>, <<>>) EXCEPT !.minLength = lo, !.maxLength = hi] :
        lo \in {Null, Number(1)}, hi \in {Null, Number(3)}} \cup
    {[ConcreteNode("ZodType", <<>>, <<>>) EXCEPT !.cls = c] : c \in {"File", "Blob"}} \cup
    {ConcreteNode(k, <<>>, <<>>) :
        k \in {"ZodBoolean", "ZodDate", "ZodObject", "ZodRecord", "ZodBigInt"}
              \cup UnrecognizedKinds}

Wrappers ==
    {[kind |-> "ZodDefault", value |-> Str("d")], [kind |-> "ZodOptional", value |-> Null],
     [kind |-> "ZodNullable", value |-> Null], [kind |-> "ZodEffects", value |-> Null]}

Schemas ==
    {[wrappers |-> w, core |-> c] : w \in SeqsUpTo(Wrappers, MaxWrappers), c \in ConcreteNodes}

NoSchema == [wrappers |-> <<>>, core |-> ConcreteNode("none", <<>>, <<>>)]

\* { type, config }
Field(type, config) == [type |-> type, config |-> config]

NoResult == Field("none", EmptyObject)

UuidPattern ==
    "^[0-9a-fA-F]{8}-[0-9a-fA-F]{4}-[0-9a-fA-F]{4}-[0-9a-fA-F]{4}-[0-9a-fA-F]{12}$"

\* LongText for texts of more than a hundred characters only.
LongText_Over(value) == value > 100

\* check.value >= 100
LongText(value) == value >= 100

\* StringCheckWidget in which a url check decides nothing.
StringCheckWidget_UrlIgnored(check) ==
    CASE check.kind = "email" -> "email"
      [] check.kind = "min" /\ LongText(check.value[2]) -> "textarea"
      [] OTHER -> "none"

\* The widget a check of a string returns from the loop with, "none" if the
\* loop goes on after it.
StringCheckWidget(check) ==
    CASE check.kind = "email" -> "email"
      [] check.kind = "url" -> "url"
      [] check.kind = "min" /\ LongText(check.value[2]) -> "textarea"
      [] OTHER -> "none"

\* What a check of a string writes to config.
StringCheckConfig(check, config) ==
    CASE check.kind = "uuid" -> Put(config, "pattern", Str(UuidPattern))
      [] check.kind = "min" -> Put(config, "minLength", check.value)
      [] check.kind = "max" -> Put(config, "maxLength", check.value)
      [] check.kind = "regex" -> Put(config, "pattern", check.value)
      [] OTHER -> config

\* for (const check of zodType._def.checks) of the string branch
RECURSIVE ScanStringChecks(_, _)
ScanStringChecks(checks, config) ==
    IF checks = <<>>
    THEN Field("text", config)
    ELSE IF StringCheckWidget(Head(checks)) # "none"
         THEN Field(StringCheckWidget(Head(checks)), StringCheckConfig(Head(checks), config))
         ELSE ScanStringChecks(Tail(checks), StringCheckConfig(Head(checks), config))

\* for (const check of zodType._def.checks) of the number branch; acc holds
\* config, minValue and maxValue.
RECURSIVE ScanNumberChecks(_, _)
ScanNumberChecks(checks, acc) ==
    IF checks = <<>>
    THEN acc
    ELSE ScanNumberChecks(Tail(checks),
            CASE Head(checks).kind = "min" ->
                    [acc EXCEPT !.config = Put(@, "min", Head(checks).value),
                                !.minValue = Head(checks).value]
              [] Head(checks).kind = "max" ->
                    [acc EXCEPT !.config = Put(@, "max", Head(checks).value),
                                !.maxValue = Head(checks).value]
              [] Head(checks).kind = "int" ->
                    [acc EXCEPT !.config = Put(@, "step", Number(1))]
              [] Head(checks).kind = "multipleOf" ->
                    [acc EXCEPT !.config = Put(@, "step", Head(checks).value)]
              [] OTHER -> acc)

\* SmallRange for spans below ten only.
SmallRange_Strict(minValue, maxValue) ==
    minValue # Undefined /\ maxValue # Undefined /\ maxValue[2] - minValue[2] < 10

\* minValue !== undefined && maxValue !== undefined && maxValue - minValue <= 10
SmallRange(minValue, maxValue) ==
    minValue # Undefined /\ maxValue # Undefined /\ maxValue[2] - minValue[2] <= 10

\* String(value).charAt(0).toUpperCase() + String(value).slice(1)
Capitalized(value) == <<"capitalized", value>>

\* The options of an enum, a native enum or a discriminated union.
ValueOptions(members) ==
    Arr([i \in DOMAIN members |->
            Obj([label |-> Capitalized(members[i]), value |-> Str(members[i])])])

\* The options of a union: `Option ${index + 1}` and the index.
IndexOptions(options) ==
    Arr([i \in DOMAIN options |->
            Obj([label |-> <<"Option", i>>, value |-> Number(i - 1)])])

ArrayConfig(node) ==
    Spread(IF node.minLength # Null THEN [minItems |-> node.minLength] ELSE EmptyObject,
           IF node.maxLength # Null THEN [maxItems |-> node.maxLength] ELSE EmptyObject)

\* Fallback that names the kind unknown.
Fallback_Unknown == Field("unknown", EmptyObject)

\* Default fallback
Fallback == Field("text", EmptyObject)

\* mapZodTypeToFieldType below the wrappers.
MapConcrete(node) ==
    CASE node.kind = "ZodString" -> ScanStringChecks(node.checks, EmptyObject)
      [] node.kind = "ZodNumber" ->
            LET acc == ScanNumberChecks(node.checks,
                          [config |-> EmptyObject, minValue |-> Undefined,
                           maxValue |-> Undefined])
            IN  IF SmallRange(acc.minValue, acc.maxValue)
                THEN Field("range", acc.config)
                ELSE Field("number", acc.config)
      [] node.kind = "ZodBoolean" -> Field("checkbox", EmptyObject)
      [] node.kind = "ZodDate" -> Field("date", EmptyObject)
      [] node.kind = "ZodEnum" ->
            IF Len(node.values) <= 4
            THEN Field("radio", [options |-> ValueOptions(node.values)])
            ELSE Field("select", [options |-> ValueOptions(node.values)])
      [] node.kind = "ZodNativeEnum" -> Field("select", [options |-> ValueOptions(node.values)])
      [] node.kind = "ZodArray" -> Field("array", ArrayConfig(node))
      [] node.kind = "ZodObject" -> Field("object", EmptyObject)
      [] node.kind = "ZodRecord" -> Field("record", EmptyObject)
      [] node.kind = "ZodUnion" -> Field("radio", [options |-> IndexOptions(node.values)])
      [] node.kind = "ZodDiscriminatedUnion" ->
            Field("select", [options |-> ValueOptions(node.values)])
      [] node.kind = "ZodType" /\ node.cls = "File" -> Field("file", EmptyObject)
      [] node.kind = "ZodBigInt" -> Field("number", EmptyObject)
      [] OTHER -> Fallback

\* mapZodTypeToFieldType(zodType); its path parameter is only passed on.
RECURSIVE mapZodTypeToFieldType(_)
mapZodTypeToFieldType(zodType) ==
    IF zodType.wrappers = <<>>
    THEN MapConcrete(zodType.core)
    ELSE LET wrapper == Head(zodType.wrappers)
             result == mapZodTypeToFieldType([zodType EXCEPT !.wrappers = Tail(@)])
         IN  CASE wrapper.kind = "ZodDefault" ->
                    [result EXCEPT !.config = Put(@, "defaultValue", wrapper.value)]
               [] wrapper.kind \in {"ZodOptional", "ZodNullable"} ->
                    [result EXCEPT !.config = Put(@, "required", Bool(FALSE))]
               [] wrapper.kind = "ZodEffects" -> result

MapperIdle == schema = NoSchema /\ mapped = NoResult

MapperInit == schema \in Schemas /\ mapped = NoResult

\* A caller maps the node.
MapField ==
    /\ mapped = NoResult
    /\ mapped' = mapZodTypeToFieldType(schema)
    /\ UNCHANGED <<schema, hookVars, uploadVars, parserVars, visibilityVars>>

(***************************** the schema parser ***************************)
\* Object schemas.  The shape of an object is the sequence of its properties
\* in key order, each a name and a node.
Property(name, node) == [name |-> name, schema |-> node]

Node(wrappers, core) == [wrappers |-> wrappers, core |-> core]

ObjectNode(shape) == [ConcreteNode("ZodObject", <<>>, <<>>) EXCEPT !.shape = shape]

PlainString == Node(<<>>, ConcreteNode("ZodString", <<>>, <<>>))

PaddingNames ==
    <<"p01", "p02", "p03", "p04", "p05", "p06", "p07", "p08", "p09", "p10",
      "p11", "p12", "p13", "p14", "p15", "p16", "p17", "p18", "p19">>

NestedNames == <<"n1", "n2", "n3", "n4", "n5", "n6">>

\* k required strings
Padding(names, k) == [i \in 1..k |-> Property(names[i], PlainString)]

\* An effect whose refinement throws when it runs.
ThrowingEffect == [kind |-> "ZodEffects", value |-> Str("throws")]

PropertyCores ==
    {ConcreteNode("ZodString", <<>>, <<>>),
     ConcreteNode("ZodString", <<Check("min", Number(5))>>, <<>>),
     ConcreteNode("ZodNumber", <<Check("min", Number(1))>>, <<>>),
     ConcreteNode("ZodBoolean", <<>>, <<>>),
     ConcreteNode("ZodArray", <<>>, <<>>),
     ConcreteNode("ZodDate", <<>>, <<>>),
     ObjectNode(Padding(NestedNames, 5)),
     ObjectNode(Padding(NestedNames, 6))}

\* A default of the type of the node it is declared on.
TypedDefault(core) ==
    CASE core.kind = "ZodString" -> Str("hello")
      [] core.kind = "ZodNumber" -> Number(7)
      [] core.kind = "ZodBoolean" -> Bool(TRUE)
      [] core.kind = "ZodArray" -> Arr(<<Str("x")>>)
      [] core.kind = "ZodDate" -> Date(0)
      [] core.kind = "ZodObject" ->
            Obj([name \in {core.shape[i].name : i \in DOMAIN core.shape} |-> Str("hello")])

PropertyWrappers(core) ==
    {[kind |-> "ZodDefault", value |-> TypedDefault(core)],
     [kind |-> "ZodOptional", value |-> Null],
     [kind |-> "ZodNullable", value |-> Null],
     [kind |-> "ZodEffects", value |-> Null],
     ThrowingEffect}

PropertySchemas(depth) ==
    UNION {{Node(w, c) : w \in SeqsUpTo(PropertyWrappers(c), depth)} : c \in PropertyCores}

\* The field counts explored lie on both sides of 10 and of 20.
PaddingCounts == {0, 9, 19}

\* The schemas handed to the parser: objects of one property, under up to
\* MaxWrappers wrappers, or of two, under up to one, followed by required
\* strings; and schemas that are no object, one of them an optional object.
ParsedSchemas ==
    {Node(<<>>, ObjectNode(<<Property("f1", n)>> \o Padding(PaddingNames, k))) :
        n \in PropertySchemas(MaxWrappers), k \in PaddingCounts} \cup
    {Node(<<>>, ObjectNode(<<Property("f1", n), Property("f2", m)>>
                            \o Padding(PaddingNames, k))) :
        n \in PropertySchemas(1), m \in PropertySchemas(1), k \in PaddingCounts} \cup
    {Node(<<>>, ObjectNode(<<>>)),
     PlainString,
     Node(<<[kind |-> "ZodOptional", value |-> Null]>>,
          ObjectNode(<<Property("f1", PlainString)>>))}

\* check.inclusive: the bounds explored are declared with min() and max().
Inclusive(check) == Bool(TRUE)

\* The rules a check of a string adds.
StringRule(check, rules) ==
    CASE check.kind = "min" -> Put(rules, "minLength", check.value)
      [] check.kind = "max" -> Put(rules, "maxLength", check.value)
      [] check.kind = "email" -> Put(rules, "email", Bool(TRUE))
      [] check.kind = "url" -> Put(rules, "url", Bool(TRUE))
      [] check.kind = "regex" -> Put(rules, "pattern", <<"RegExp", check.value[2]>>)
      [] check.kind = "uuid" -> Put(rules, "uuid", Bool(TRUE))
      [] check.kind = "cuid" -> Put(rules, "cuid", Bool(TRUE))
      [] check.kind = "startsWith" -> Put(rules, "startsWith", check.value)
      [] check.kind = "endsWith" -> Put(rules, "endsWith", check.value)
      [] OTHER -> rules

\* The rules a check of a number adds.
NumberRule(check, rules) ==
    CASE check.kind = "min" ->
            Put(Put(rules, "min", check.value), "minInclusive", Inclusive(check))
      [] check.kind = "max" ->
            Put(Put(rules, "max", check.value), "maxInclusive", Inclusive(check))
      [] check.kind = "int" -> Put(rules, "integer", Bool(TRUE))
      [] check.kind = "multipleOf" -> Put(rules, "multipleOf", check.value)
      [] check.kind = "finite" -> Put(rules, "finite", Bool(TRUE))
      [] OTHER -> rules

RECURSIVE CheckRules(_, _, _)
CheckRules(kind, checks, rules) ==
    IF checks = <<>>
    THEN rules
    ELSE CheckRules(kind, Tail(checks),
                    IF kind = "ZodString"
                    THEN StringRule(Head(checks), rules)
                    ELSE NumberRule(Head(checks), rules))

\* extractValidationRules below the wrappers.
ConcreteRules(node) ==
    Put(CASE node.kind \in {"ZodString", "ZodNumber"} ->
                CheckRules(node.kind, node.checks, EmptyObject)
          [] node.kind = "ZodArray" ->
                Spread(IF node.minLength # Null
                       THEN [minItems |-> node.minLength] ELSE EmptyObject,
                       IF node.maxLength # Null
                       THEN [maxItems |-> node.maxLength] ELSE EmptyObject)
          [] OTHER -> EmptyObject,
        "required", Bool(TRUE))

\* extractValidationRules that looks for an optional or nullable wrapper at
\* the outermost position only.
extractValidationRules_Outermost(zodType) ==
    Put(ConcreteRules(zodType.core), "required",
        Bool(~(zodType.wrappers # <<>>
               /\ Head(zodType.wrappers).kind \in {"ZodOptional", "ZodNullable"})))

RECURSIVE extractValidationRules(_)
extractValidationRules(zodType) ==
    IF zodType.wrappers = <<>>
    THEN ConcreteRules(zodType.core)
    ELSE LET wrapper == Head(zodType.wrappers)
             innerRules == extractValidationRules([zodType EXCEPT !.wrappers = Tail(@)])
         IN  IF wrapper.kind \in {"ZodOptional", "ZodNullable"}
             THEN Put(innerRules, "required", Bool(FALSE))
             ELSE innerRules

\* zodType._def.typeName
TypeName(zodType) ==
    IF zodType.wrappers = <<>> THEN zodType.core.kind ELSE Head(zodType.wrappers).kind

\* getZodTypeInfo(zodType); the nodes explored carry no description.
getZodTypeInfo(zodType) ==
    [typeName |-> TypeName(zodType),
     isOptional |-> TypeName(zodType) = "ZodOptional",
     isNullable |-> TypeName(zodType) = "ZodNullable",
     hasDefault |-> TypeName(zodType) = "ZodDefault",
     defaultValue |-> IF TypeName(zodType) = "ZodDefault"
                      THEN Head(zodType.wrappers).value
                      ELSE Undefined,
     options |-> IF TypeName(zodType) = "ZodEnum"
                 THEN Arr([i \in DOMAIN zodType.core.values |->
                             Obj([label |-> Str(zodType.core.values[i]),
                                  value |-> Str(zodType.core.values[i])])])
                 ELSE Undefined]

\* validation.required !== false
AnalyzedRequired(validation_) ==
    ~(Has(validation_, "required") /\ validation_["required"] = Bool(FALSE))

\* analyzeField(name, zodType); its path parameter is only passed on.
analyzeField(name, zodType) ==
    [name |-> name,
     type |-> mapZodTypeToFieldType(zodType).type,
     zodType |-> TypeName(zodType),
     required |-> AnalyzedRequired(extractValidationRules(zodType)),
     config |-> Spread(mapZodTypeToFieldType(zodType).config,
                       extractValidationRules(zodType)),
     defaultValue |-> getZodTypeInfo(zodType).defaultValue]

\* schema instanceof z.ZodObject
IsObject(zodType) == zodType.wrappers = <<>> /\ zodType.core.kind = "ZodObject"

\* parseSchema(schema): the fields in key order.
parseSchema(zodType) ==
    IF IsObject(zodType)
    THEN [i \in DOMAIN zodType.core.shape |->
            analyzeField(zodType.core.shape[i].name, zodType.core.shape[i].schema)]
    ELSE <<>>

\* A property of a config that is set to something truthy.
Truthy(config, key) ==
    Has(config, key) /\ config[key] \notin {Undefined, Null, Bool(FALSE)}

\* The complexity analyzeSchema assigns.
Complexity(fields) ==
    IF \/ \E i \in DOMAIN fields : Truthy(fields[i].config, "showWhen")
       \/ Len(fields) > 20
       \/ \E i \in DOMAIN fields :
             /\ fields[i].type = "object"
             /\ Truthy(fields[i].config, "fields")
             /\ Cardinality(DOMAIN fields[i].config["fields"][2]) > 5
    THEN "complex"
    ELSE IF \/ \E i \in DOMAIN fields : fields[i].type = "array"
            \/ \E i \in DOMAIN fields : fields[i].type = "object"
            \/ Len(fields) > 10
         THEN "moderate"
         ELSE "simple"

analyzeSchema(zodType) ==
    LET fields == parseSchema(zodType)
    IN  [fields |-> fields,
         hasArrays |-> \E i \in DOMAIN fields : fields[i].type = "array",
         hasObjects |-> \E i \in DOMAIN fields : fields[i].type = "object",
         hasConditionals |-> \E i \in DOMAIN fields : Truthy(fields[i].config, "showWhen"),
         complexity |-> Complexity(fields)]

\* What generateDefaultValues assigns to the key of a property, Undefined
\* when it assigns nothing.  A nested object is a ZodObject itself, so the
\* recursive call takes its first branch.
RECURSIVE generateDefaultValues(_)

\* DefaultFor that looks through the wrappers: the default of the first
\* default wrapper, else the value for the concrete type under them.
DefaultFor_Resolved(zodType) ==
    IF \E i \in DOMAIN zodType.wrappers : zodType.wrappers[i].kind = "ZodDefault"
    THEN LET i == CHOOSE i \in DOMAIN zodType.wrappers :
                     /\ zodType.wrappers[i].kind = "ZodDefault"
                     /\ \A j \in 1..(i - 1) : zodType.wrappers[j].kind # "ZodDefault"
         IN  zodType.wrappers[i].value
    ELSE CASE zodType.core.kind = "ZodArray" -> Arr(<<>>)
           [] zodType.core.kind = "ZodBoolean" -> Bool(FALSE)
           [] zodType.core.kind = "ZodNumber" -> Number(0)
           [] zodType.core.kind = "ZodString" -> Str("")
           [] OTHER -> Undefined

DefaultFor(zodType) ==
    CASE TypeName(zodType) = "ZodDefault" -> Head(zodType.wrappers).value
      [] TypeName(zodType) = "ZodArray" -> Arr(<<>>)
      [] TypeName(zodType) = "ZodObject" -> Obj(generateDefaultValues(zodType))
      [] TypeName(zodType) = "ZodBoolean" -> Bool(FALSE)
      [] TypeName(zodType) = "ZodNumber" -> Number(0)
      [] TypeName(zodType) = "ZodString" -> Str("")
      [] OTHER -> Undefined

\* shape[key]
PropertyOf(zodType, key) ==
    LET i == CHOOSE i \in DOMAIN zodType.core.shape : zodType.core.shape[i].name = key
    IN  zodType.core.shape[i].schema

Keys(zodType) == {zodType.core.shape[i].name : i \in DOMAIN zodType.core.shape}

generateDefaultValues(zodType) ==
    IF IsObject(zodType)
    THEN [key \in {k \in Keys(zodType) : DefaultFor(PropertyOf(zodType, k)) # Undefined} |->
            DefaultFor(PropertyOf(zodType, key))]
    ELSE EmptyObject

\* schema.safeParse(data), as zod 3 parses the types explored.  The outcome
\* has the status of the parse (valid, dirty when a check failed, aborted
\* when the type is wrong, thrown when a refinement threw), the issues in
\* the order zod reports them and the parsed value.
Outcome(status, issues, data) == [status |-> status, issues |-> issues, data |-> data]

Issue(code, path, message) == [code |-> code, path |-> path, message |-> message]

\* zod's name of the type of a value
ParsedType(value) ==
    CASE value = Undefined -> "undefined"
      [] value = Null -> "null"
      [] value = NaN -> "nan"
      [] value[1] = "str" -> "string"
      [] value[1] = "number" -> "number"
      [] value[1] = "bool" -> "boolean"
      [] value[1] = "arr" -> "array"
      [] value[1] = "obj" -> "object"
      [] value[1] = "Date" -> "date"
      [] OTHER -> "unknown"

ExpectedType(core) ==
    CASE core.kind = "ZodString" -> "string"
      [] core.kind = "ZodNumber" -> "number"
      [] core.kind = "ZodBoolean" -> "boolean"
      [] core.kind = "ZodArray" -> "array"
      [] core.kind = "ZodObject" -> "object"
      [] core.kind = "ZodDate" -> "date"
      [] OTHER -> "unknown"

InvalidType(core, value, path) ==
    Outcome("aborted",
            <<Issue("invalid_type", path,
                    IF value = Undefined THEN "Required"
                    ELSE "Expected " \o ExpectedType(core) \o ", received "
                         \o ParsedType(value))>>,
            Undefined)

\* The issues of the length and bound checks of a string, a number or an
\* array; the other checks are not among the schemas parsed.
RECURSIVE CheckIssues(_, _, _, _)
CheckIssues(checks, size, what, path) ==
    IF checks = <<>>
    THEN <<>>
    ELSE LET check == Head(checks)
             issue ==
                 IF check.kind = "min" /\ size < check.value[2]
                 THEN <<Issue("too_small", path,
                              what[1] \o "at least " \o ToString(check.value[2]) \o what[2])>>
                 ELSE IF check.kind = "max" /\ size > check.value[2]
                 THEN <<Issue("too_big", path,
                              what[1] \o "at most " \o ToString(check.value[2]) \o what[2])>>
                 ELSE <<>>
         IN  issue \o CheckIssues(Tail(checks), size, what, path)

Checked(issues, data) ==
    Outcome(IF issues = <<>> THEN "valid" ELSE "dirty", issues, data)

RECURSIVE Flatten(_)
Flatten(seqs) == IF seqs = <<>> THEN <<>> ELSE Head(seqs) \o Flatten(Tail(seqs))

RECURSIVE ParseNode(_, _, _, _)
ParseConcrete(core, value, path) ==
    IF ExpectedType(core) # "unknown" /\ ParsedType(value) # ExpectedType(core)
    THEN InvalidType(core, value, path)
    ELSE CASE core.kind = "ZodString" ->
                Checked(CheckIssues(core.checks, Len(value[2]),
                                    <<"String must contain ", " character(s)">>, path), value)
           [] core.kind = "ZodNumber" ->
                Checked(CheckIssues(core.checks, value[2],
                                    <<"Number must be ", "">>, path), value)
           [] core.kind = "ZodArray" ->
                Checked(CheckIssues(
                            (IF core.minLength # Null
                             THEN <<Check("min", core.minLength)>> ELSE <<>>) \o
                            (IF core.maxLength # Null
                             THEN <<Check("max", core.maxLength)>> ELSE <<>>),
                            Len(value[2]), <<"Array must contain ", " element(s)">>, path),
                        value)
           [] core.kind = "ZodObject" ->
                LET parsed == [i \in DOMAIN core.shape |->
                                  ParseNode(core.shape[i].schema.wrappers,
                                            core.shape[i].schema.core,
                                            IF Has(value[2], core.shape[i].name)
                                            THEN value[2][core.shape[i].name]
                                            ELSE Undefined,
                                            Append(path, core.shape[i].name))]
                    statuses == {parsed[i].status : i \in DOMAIN parsed}
                    kept == {i \in DOMAIN parsed :
                                \/ Has(value[2], core.shape[i].name)
                                \/ parsed[i].data # Undefined}
                IN  Outcome(CASE "thrown" \in statuses -> "thrown"
                              [] "aborted" \in statuses -> "aborted"
                              [] "dirty" \in statuses -> "dirty"
                              [] OTHER -> "valid",
                            Flatten([i \in DOMAIN parsed |-> parsed[i].issues]),
                            Obj([key \in {core.shape[i].name : i \in kept} |->
                                   parsed[CHOOSE i \in kept : core.shape[i].name = key].data]))
           [] OTHER -> Outcome("valid", <<>>, value)

ParseNode(wrappers, core, value, path) ==
    IF wrappers = <<>>
    THEN ParseConcrete(core, value, path)
    ELSE LET wrapper == Head(wrappers)
         IN  CASE wrapper.kind = "ZodDefault" ->
                    ParseNode(Tail(wrappers), core,
                              IF value = Undefined THEN wrapper.value ELSE value, path)
               [] wrapper.kind = "ZodOptional" ->
                    IF value = Undefined
                    THEN Outcome("valid", <<>>, Undefined)
                    ELSE ParseNode(Tail(wrappers), core, value, path)
               [] wrapper.kind = "ZodNullable" ->
                    IF value = Null
                    THEN Outcome("valid", <<>>, Null)
                    ELSE ParseNode(Tail(wrappers), core, value, path)
               [] wrapper.kind = "ZodEffects" ->
                    LET inner == ParseNode(Tail(wrappers), core, value, path)
                    IN  IF inner.status \in {"aborted", "thrown"}
                        THEN inner
                        ELSE IF wrapper = ThrowingEffect
                             THEN Outcome("thrown", <<>>, Undefined)
                             ELSE inner

safeParse(zodType, data) == ParseNode(zodType.wrappers, zodType.core, data, <<>>)

\* Join that puts nothing between the segments of a path.
RECURSIVE Join_Bare(_)
Join_Bare(path) ==
    IF path = <<>> THEN "" ELSE Head(path) \o Join_Bare(Tail(path))

\* err.path.join('.')
RECURSIVE Join(_)
Join(path) ==
    IF path = <<>> THEN ""
    ELSE IF Len(path) = 1 THEN Head(path)
    ELSE Head(path) \o "." \o Join(Tail(path))

\* One entry of the errors of a failed validation.
FieldError(err) ==
    [field |-> Join(err.path), message |-> err.message, code |-> err.code,
     path |-> err.path]

\* What the catch block returns.
RootError ==
    [success |-> FALSE, data |-> Undefined,
     errors |-> <<[field |-> "root", message |-> "Schema validation failed",
                   code |-> "custom", path |-> <<>>]>>]

validateWithSchema(zodType, data) ==
    LET result == safeParse(zodType, data)
    IN  IF result.status = "thrown"
        THEN RootError
        ELSE IF result.issues = <<>>
        THEN [success |-> TRUE, data |-> result.data, errors |-> <<>>]
        ELSE [success |-> FALSE, data |-> Undefined,
              errors |-> [i \in DOMAIN result.issues |-> FieldError(result.issues[i])]]

\* The data validated: what generateDefaultValues made of the schema, an
\* object with a string, a number or an object under the first key, an empty
\* object and no object at all.
Candidates ==
    {Obj(generateDefaultValues(schema)),
     Obj(EmptyObject),
     Obj([f1 |-> Str("hello!")]),
     Obj([f1 |-> Number(0)]),
     Obj([f1 |-> Obj([n1 |-> Number(0), n2 |-> Str("")])]),
     Undefined}

NotCalled == <<"not called", "not called">>

ParserIdle ==
    /\ analysis = NotCalled
    /\ defaults = NotCalled
    /\ candidate = NotCalled
    /\ validation = NotCalled

\* Each behaviour is one call of one of the three functions.
AnalyzeSchema ==
    /\ ParserIdle
    /\ analysis' = <<"analysis", analyzeSchema(schema)>>
    /\ UNCHANGED <<defaults, candidate, validation>>
    /\ UNCHANGED <<hookVars, uploadVars, mapperVars, visibilityVars>>

GenerateDefaultValues ==
    /\ ParserIdle
    /\ defaults' = <<"defaults", generateDefaultValues(schema)>>
    /\ UNCHANGED <<analysis, candidate, validation>>
    /\ UNCHANGED <<hookVars, uploadVars, mapperVars, visibilityVars>>

ValidateWithSchema ==
    /\ ParserIdle
    /\ \E data \in Candidates :
        /\ candidate' = data
        /\ validation' = <<"validation", validateWithSchema(schema, data)>>
    /\ UNCHANGED <<analysis, defaults>>
    /\ UNCHANGED <<hookVars, uploadVars, mapperVars, visibilityVars>>

(*************************** conditional visibility ***********************)
FieldNames == {"contactPreference", "phoneNumber"}

\* The values a field of the form takes; Undefined for a field without value.
FormValues ==
    {Undefined, Null, NaN, Str("phone"), Str("email"), Str("5"), Str(""),
     Number(5), Number(3), Bool(TRUE), Arr(<<Str("phone")>>), Arr(<<NaN>>)}

ExpectedValues ==
    {Undefined, Null, NaN, Str("phone"), Str("pho"), Str("5"), Number(5),
     Arr(<<Str("phone")>>)}

\* The operators of a rule: the five the hook knows, two it does not, and none.
Operators ==
    {Str("equals"), Str("not-equals"), Str("contains"), Str("greater-than"),
     Str("less-than"), Str("matches"), Str("Equals"), Undefined}

\* config.showWhen: { field, value, operator? }
ShowWhen(field, value, operator) ==
    IF operator = Undefined
    THEN [field |-> Str(field), value |-> value]
    ELSE [field |-> Str(field), value |-> value, operator |-> operator]

Rules ==
    {ShowWhen(f, v, o) :
        f \in {"contactPreference", "other"}, v \in ExpectedValues, o \in Operators}

\* The configs of a field: without rule, with a rule that is null, with a rule.
FieldConfigs ==
    {EmptyObject, [showWhen |-> Null]} \cup {[showWhen |-> <<"rule", r>>] : r \in Rules}

\* Number(value), for the values explored
ToNumber(value) ==
    CASE value[1] = "number" -> value
      [] value = Null -> Number(0)
      [] value = Bool(TRUE) -> Number(1)
      [] value = Bool(FALSE) -> Number(0)
      [] value \in {Str(""), Arr(<<>>)} -> Number(0)
      [] value = Str("5") -> Number(5)
      [] OTHER -> NaN

\* String(value), for the values explored
ToText(value) ==
    CASE value[1] = "str" -> value[2]
      [] value[1] = "number" -> ToString(value[2])
      [] value = Undefined -> "undefined"
      [] value = Null -> "null"
      [] value = NaN -> "NaN"
      [] value = Bool(TRUE) -> "true"
      [] value = Bool(FALSE) -> "false"
      [] value = Arr(<<Str("phone")>>) -> "phone"
      [] value = Arr(<<NaN>>) -> "NaN"
      [] OTHER -> ""

\* text.includes(part)
Includes(text, part) ==
    \E i \in 1..(Len(text) - Len(part) + 1) : SubSeq(text, i, i + Len(part) - 1) = part

\* Equality that converts its operands, as == does.
LooseEquals(a, b) ==
    \/ a = b /\ a # NaN /\ a[1] # "arr"
    \/ {a, b} = {Null, Undefined}
    \/ /\ {a[1], b[1]} = {"str", "number"}
       /\ ToNumber(a) = ToNumber(b) /\ ToNumber(a) # NaN

\* a === b: NaN equals nothing, and an array of the form is another object
\* than an array of a rule.
StrictEquals(a, b) == a = b /\ a # NaN /\ a[1] # "arr"

\* array.includes(element): SameValueZero
ArrayIncludes(array, element) ==
    \E i \in DOMAIN array[2] :
        \/ StrictEquals(array[2][i], element)
        \/ array[2][i] = NaN /\ element = NaN

\* What the default branch of the switch decides.
UnknownOperator == TRUE

\* The visibility of one field.
IsVisible(config, currentValues) ==
    IF ~Truthy(config, "showWhen")
    THEN TRUE
    ELSE LET showWhen == config["showWhen"][2]
             dependentField == showWhen.field[2]
             expectedValue == showWhen.value
             operator == IF Has(showWhen, "operator")
                         THEN showWhen.operator ELSE Str("equals")
             actualValue == IF Has(currentValues, dependentField)
                            THEN currentValues[dependentField] ELSE Undefined
         IN  CASE operator = Str("equals") -> StrictEquals(actualValue, expectedValue)
               [] operator = Str("not-equals") -> ~StrictEquals(actualValue, expectedValue)
               [] operator = Str("contains") ->
                    IF actualValue[1] = "arr"
                    THEN ArrayIncludes(actualValue, expectedValue)
                    ELSE Includes(ToText(actualValue), ToText(expectedValue))
               [] operator = Str("greater-than") ->
                    /\ ToNumber(actualValue) # NaN /\ ToNumber(expectedValue) # NaN
                    /\ ToNumber(actualValue)[2] > ToNumber(expectedValue)[2]
               [] operator = Str("less-than") ->
                    /\ ToNumber(actualValue) # NaN /\ ToNumber(expectedValue) # NaN
                    /\ ToNumber(actualValue)[2] < ToNumber(expectedValue)[2]
               [] OTHER -> UnknownOperator

useConditionalFields(fields, currentValues) ==
    [name \in DOMAIN fields |-> IsVisible(fields[name], currentValues)]

VisibilityIdle ==
    /\ fieldDefs = EmptyObject
    /\ formValues = EmptyObject
    /\ visibleFields = NotCalled

\* A form of two fields, the second of which may depend on the first.
VisibilityInit ==
    /\ \E config \in FieldConfigs :
          fieldDefs = [contactPreference |-> EmptyObject, phoneNumber |-> config]
    /\ formValues = EmptyObject
    /\ visibleFields = NotCalled

\* The first render of the component that uses the hook.
Render ==
    /\ visibleFields = NotCalled
    /\ visibleFields' = <<"visible", useConditionalFields(fieldDefs, formValues)>>
    /\ UNCHANGED <<fieldDefs, formValues>>
    /\ UNCHANGED <<hookVars, uploadVars, mapperVars, parserVars>>

\* A value of the form changes and the component renders again: formValues
\* is a dependency of the memo, which is computed anew.
ValueChanges(name, value) ==
    /\ visibleFields # NotCalled
    /\ formValues' = Put(formValues, name, value)
    /\ formValues' # formValues
    /\ visibleFields' = <<"visible", useConditionalFields(fieldDefs, formValues')>>
    /\ UNCHANGED fieldDefs
    /\ UNCHANGED <<hookVars, uploadVars, mapperVars, parserVars>>

(***************************** specifications ******************************)
\* A configuration that binds nothing, for the specifications in which
\* useFirestoreForm is not used.
NoBinding ==
    [collection |-> FALSE, documentId |-> NoId, documentRef |-> NoRef, user |-> NoUser,
     autoSave |-> FALSE, includeMetadata |-> FALSE, transformBeforeSave |-> FALSE,
     transformAfterLoad |-> FALSE]

HookUnused == HookInit /\ cfg = NoBinding /\ store = EmptyObject

Init ==
    HookInit /\ UploadInit /\ FieldUnused /\ MapperIdle /\ ParserIdle /\ VisibilityIdle

Next ==
    \/ \E data \in SaveArguments : ExplicitSave(data)
    \/ \E i \in DOMAIN saves : WriteSucceeds(i)
    \/ \E i \in DOMAIN saves : WriteFails(i)
    \/ OnSnapshotNext
    \/ OnSnapshotError
    \/ \E title \in LocalTitles : FormSetValue(title)
    \/ Tick
    \/ AutoSaveTimerFires
    \/ RemoteChange
    \/ Unmount

Spec == Init /\ [][Next]_vars

\* The store delivers a snapshot or an error to every listener.
Fairness == WF_vars(OnSnapshotNext \/ OnSnapshotError)

LiveSpec == Init /\ [][Next]_vars /\ Fairness

UploadsInit ==
    HookUnused /\ UploadInit /\ FieldInit /\ MapperIdle /\ ParserIdle /\ VisibilityIdle

UploadsNext ==
    \/ \E file \in Files : Upload(file)
    \/ \E files \in FileLists : handleFileChange(files)
    \/ \E t \in DOMAIN tasks, k \in 0..MaxTicks : StateChanged(t, k * ChunkSize)
    \/ \E t \in DOMAIN tasks : TaskFails(t)
    \/ \E t \in DOMAIN tasks : TaskCompletes(t)
    \/ \E t \in DOMAIN tasks : UrlResolves(t)
    \/ \E t \in DOMAIN tasks : UrlFails(t)

UploadSpec == UploadsInit /\ [][UploadsNext]_vars

MappingInit ==
    HookUnused /\ UploadInit /\ FieldUnused /\ MapperInit /\ ParserIdle /\ VisibilityIdle

MappingNext == MapField

MapperSpec == MappingInit /\ [][MappingNext]_vars

ParsingInit ==
    /\ HookUnused /\ UploadInit /\ FieldUnused
    /\ schema \in ParsedSchemas /\ mapped = NoResult
    /\ ParserIdle /\ VisibilityIdle

ParsingNext ==
    \/ AnalyzeSchema
    \/ GenerateDefaultValues
    \/ ValidateWithSchema

ParserSpec == ParsingInit /\ [][ParsingNext]_vars

VisibilitySpecInit ==
    /\ HookUnused /\ UploadInit /\ FieldUnused /\ MapperIdle /\ ParserIdle
    /\ VisibilityInit

VisibilityNext ==
    \/ Render
    \/ \E name \in FieldNames, value \in FormValues : ValueChanges(name, value)

VisibilitySpec == VisibilitySpecInit /\ [][VisibilityNext]_vars


(***************************** properties **********************************)
\* Steps, as the variables show them.
SaveStarted == started' = started + 1
NewSave == saves'[Len(saves')]
TimerFired == timer.pending /\ ~timer'.pending /\ mounted'
Created == DOMAIN store' \ DOMAIN store
Unconfigured == ~cfg.collection /\ cfg.documentRef = NoRef

\* C1: once the reported documentId is non-null it never changes.
C1_DocumentIdImmutable ==
    [][currentDocId # NoId => currentDocId' = currentDocId]_vars

NoStamps == <<NoData, NoData>>

CreationStamps(doc) ==
    IF /\ Has(doc, "_metadata")
       /\ doc["_metadata"][1] = "obj"
       /\ Has(doc["_metadata"][2], "createdAt")
       /\ Has(doc["_metadata"][2], "createdBy")
    THEN <<doc["_metadata"][2]["createdAt"], doc["_metadata"][2]["createdBy"]>>
    ELSE NoStamps

\* C2: with metadata enabled, no step changes or removes the createdAt and
\* createdBy a stored document carries.
C2_CreationStampsKept ==
    [][cfg.includeMetadata =>
         \A id \in DOMAIN store :
            CreationStamps(store[id]) # NoStamps =>
               CreationStamps(store'[id]) = CreationStamps(store[id])]_vars

ExpectedCreatedBy == IF cfg.user = NoUser THEN Null ELSE Str(cfg.user)

PayloadStampsCreation(payload) ==
    /\ CreationStamps(payload) # NoStamps
    /\ CreationStamps(payload)[1] = serverTimestamp
    /\ CreationStamps(payload)[2] = ExpectedCreatedBy

DocumentStampsCreation(doc) ==
    /\ CreationStamps(doc) # NoStamps
    /\ CreationStamps(doc)[1][1] = "Timestamp"
    /\ CreationStamps(doc)[2] = ExpectedCreatedBy

\* A save on a binding with a collection and no documentId, under condition
\* enabled: the save issues a create whose payload stamps the creation, and the
\* create, once it succeeds, sets documentId to the id of the new document,
\* which carries the stamps.
CreateStep(enabled) ==
    /\ SaveStarted /\ enabled /\ currentDocId = NoId =>
          /\ Len(saves') = Len(saves) + 1
          /\ NewSave.path = "addDoc"
          /\ PayloadStampsCreation(NewSave.payload)
    /\ Created # {} /\ enabled /\ currentDocId = NoId /\ mounted =>
          /\ currentDocId' # NoId
          /\ currentDocId' \in Created
          /\ DocumentStampsCreation(store'[currentDocId'])

\* C3 as stated: every save of a binding with a collection and no documentId
\* creates a document, sets documentId to the new non-null id and writes
\* _metadata.createdAt and _metadata.createdBy (the user's id, or null).
C3_CreateStampsAlways == [][CreateStep(cfg.collection)]_vars

\* C3 as amended: the same, with metadata inclusion enabled.
C3_CreateStampsCreation == [][CreateStep(cfg.collection /\ cfg.includeMetadata)]_vars

C3_Witness ==
    /\ cfg.collection /\ cfg.includeMetadata /\ cfg.user = "u1"
    /\ started = 1 /\ saves = <<>>
    /\ currentDocId = GeneratedIds[1]
    /\ currentDocId \in DOMAIN store
    /\ CreationStamps(store[currentDocId]) = <<Timestamp(1), Str("u1")>>

\* C4: every value change restarts the timeout with the changed values; a save
\* the timer starts comes a full autoSaveDelay after the last change, carries
\* the values of that change, and is the only one of its burst; a change itself
\* starts no save.
C4_Debounce ==
    [][/\ timer'.pending =>
            /\ timer'.remaining + elapsed' = AutoSaveDelay
            /\ timer'.data = values'
            /\ burstSaves' = 0
       /\ burstSaves' <= 1
       /\ TimerFired /\ SaveStarted =>
            /\ elapsed = AutoSaveDelay
            /\ burstSaves = 0
            /\ Len(saves') > Len(saves) =>
                  NewSave.origin = "timer" /\ NewSave.formData = values
       /\ TimerFired /\ Valid(values) => SaveStarted
       /\ values' # values => ~SaveStarted]_vars

C4_Witness ==
    /\ burst = 2 /\ burstSaves = 1 /\ lastEdit = "x"
    /\ Len(saves) = 1
    /\ saves[1].origin = "timer"
    /\ saves[1].formData = values

\* C5: a timeout that fires while the values do not validate starts no save
\* and writes nothing; one that fires starts a save only if they validate.
C5_InvalidNotSaved ==
    [][TimerFired =>
         /\ SaveStarted => Valid(values)
         /\ ~Valid(values) => saves' = saves /\ store' = store /\ started' = started]_vars

C5_Witness ==
    /\ cfg.autoSave /\ mounted /\ ~timer.pending
    /\ lastEdit = "" /\ ~Valid(values)
    /\ elapsed = AutoSaveDelay /\ burstSaves = 0 /\ started = 0

\* C6: a binding given a documentId or a document reference stops loading,
\* provided the store delivers a snapshot or an error to every listener.
C6_LoadingEnds ==
    ((cfg.documentId # NoId \/ cfg.documentRef # NoRef) /\ mounted /\ loading)
        ~> (~loading \/ ~mounted)

RECURSIVE HasTimestamp(_)
HasTimestamp(v) ==
    CASE v[1] = "Timestamp" -> TRUE
      [] v[1] = "arr" -> \E i \in DOMAIN v[2] : HasTimestamp(v[2][i])
      [] v[1] = "obj" -> \E k \in DOMAIN v[2] : HasTimestamp(v[2][k])
      [] OTHER -> FALSE

WithEdit(f, title) == IF title = NoEdit THEN f ELSE Put(f, "title", Str(title))

\* C7: the form holds the last delivered snapshot of an existing document,
\* timestamps converted and transformAfterLoad applied, with only the edits
\* made after it; whatever saves are in flight.
C7_LastSnapshotWins ==
    /\ values = WithEdit(IF lastSnapData = NoData
                         THEN EmptyObject
                         ELSE LoadedData(cfg, lastSnapData[2]),
                         lastEdit)
    /\ ~HasTimestamp(Obj(values))
    /\ cfg.transformAfterLoad => ~Has(values, "_metadata")

C7_Witness ==
    /\ saves # <<>>
    /\ lastSnapData # NoData /\ lastSnapData[2]["title"] = Str("r")
    /\ lastEdit = "x"
    /\ values["title"] = Str("x")
    /\ values["due"] = Date(0)
    /\ values["log"] = Arr(<<Date(0)>>)

\* C8: a save the timer starts follows a local edit, never the arrival of a
\* snapshot.
C8_SnapshotStartsNoSave ==
    [][TimerFired /\ SaveStarted => timer.cause = "edit"]_vars

\* C9: from the unmount on, the listener is detached and no timeout is
\* pending; no snapshot reaches the form and no save is started.
C9_UnmountCancels ==
    [][~mounted' =>
         /\ ~subscribed' /\ snapQueue' = <<>> /\ ~timer'.pending
         /\ ~mounted =>
              /\ values' = values /\ lastSnapData' = lastSnapData
              /\ loading' = loading /\ currentDocId' = currentDocId
              /\ started' = started]_vars

C9_Witness ==
    /\ ~mounted
    /\ cfg.autoSave /\ burst >= 1 /\ elapsed < AutoSaveDelay /\ burstSaves = 0
    /\ Subscribes(cfg) /\ error = "none" /\ ~loading
    /\ saving /\ saves = <<>> /\ started = 1

\* C10: with neither a collection nor a document reference a save writes
\* nothing and rejects with the configuration error, which is kept in state;
\* saving is false and documentId is as before.
C10_ConfigurationError ==
    [][Unconfigured =>
         /\ saves' = <<>>
         /\ SaveStarted =>
              /\ store' = store /\ snapQueue' = snapQueue
              /\ rejected' = rejected + 1
              /\ error' = "config"
              /\ saving' = FALSE
              /\ currentDocId' = currentDocId]_vars

C10_Witness ==
    /\ Unconfigured
    /\ started = 1 /\ rejected = 1
    /\ error = "config" /\ ~saving /\ saves = <<>>
    /\ currentDocId = cfg.documentId

\* More steps, as the variables show them.
WriteFailed == Len(saves') < Len(saves) /\ rejected' = rejected + 1
WriteSucceeded == Len(saves') < Len(saves) /\ now' = now + 1
Ended == {saves[i] : i \in DOMAIN saves} \ {saves'[i] : i \in DOMAIN saves'}
LastCall == callLog'[Len(callLog')]
OnErrorCalled == Len(callLog') = Len(callLog) + 1 /\ LastCall.callback = "onError"
OnSuccessCalled == Len(callLog') = Len(callLog) + 1 /\ LastCall.callback = "onSuccess"
WrittenDoc(s) == IF s.path = "addDoc" THEN CHOOSE id \in Created : TRUE ELSE s.target

\* C11: a failed write is reported and blocks nothing: the error is kept in
\* state and saving is false (of a mounted binding), onError is called once
\* with the error, the form's values, documentId and the store are untouched;
\* the error stays until a later save starts, which clears it.
C11_FailedWriteReported ==
    [][/\ WriteFailed =>
            /\ mounted => error' = "write" /\ saving' = FALSE
            /\ \E s \in Ended :
                  callLog' = Append(callLog, [callback |-> "onError", save |-> s.id,
                                              argument |-> Str("write")])
            /\ values' = values /\ currentDocId' = currentDocId /\ store' = store
            /\ timer' = timer /\ mounted' = mounted
       /\ error = "write" /\ error' # "write" =>
            SaveStarted \/ error' = "subscription"
       /\ SaveStarted /\ Len(saves') > Len(saves) => error' = "none" /\ saving']_vars

C11_Witness ==
    /\ mounted /\ started = 2 /\ rejected = 1
    /\ callLog = <<[callback |-> "onError", save |-> 1, argument |-> Str("write")]>>
    /\ error = "none" /\ saving
    /\ Len(saves) = 1 /\ saves[1].id = 2

OnErrorCalls == SelectSeq(callLog, LAMBDA c : c.callback = "onError")

\* C12: every rejection of a save has been handed to onError, and none of the
\* rejected promises is left without a handler.
C12_NoUnhandledRejection ==
    /\ Len(OnErrorCalls) = rejected
    /\ unhandled = 0

\* The payload of save s before the custom transformation, read off the save:
\* the form data, and with metadata enabled the _metadata the payload carries.
Assembled(s) ==
    IF cfg.includeMetadata
    THEN Put(s.formData, "_metadata", s.payload["_metadata"])
    ELSE s.formData

RECURSIVE HasSentinel(_)
HasSentinel(v) ==
    CASE v[1] = "serverTimestamp" -> TRUE
      [] v[1] = "arr" -> \E i \in DOMAIN v[2] : HasSentinel(v[2][i])
      [] v[1] = "obj" -> \E k \in DOMAIN v[2] : HasSentinel(v[2][k])
      [] OTHER -> FALSE

\* C14: onSuccess is called only in the step in which the write of a save has
\* been applied, with the form data that save was given (nothing the save
\* stamped or transformed), and no save has a second call to onSuccess or a
\* call to both callbacks; a failed write calls onSuccess for no save.
C14_OnSuccessAfterWrite ==
    [][/\ OnSuccessCalled =>
            /\ WriteSucceeded
            /\ \E s \in Ended :
                  /\ LastCall.save = s.id
                  /\ LastCall.argument = Obj(s.formData)
                  /\ WrittenDoc(s) \in DOMAIN store'
            /\ ~HasSentinel(LastCall.argument)
            /\ \A j \in DOMAIN callLog : callLog[j].save # LastCall.save
       /\ WriteFailed => OnErrorCalled
       /\ callLog' # callLog => OnSuccessCalled \/ OnErrorCalled]_vars

C14_Witness ==
    /\ cfg.includeMetadata /\ cfg.transformBeforeSave /\ cfg.collection
    /\ started = 2 /\ saves = <<>>
    /\ callLog = <<[callback |-> "onError", save |-> 1, argument |-> Str("write")],
                   [callback |-> "onSuccess", save |-> 2,
                    argument |-> Obj([title |-> Str("x")])]>>

\* The callbacks a task's observers owe the consumer, given what the transport
\* has done with it: a progress call per report, in order, with a hundred
\* times the transferred share, then the terminal call if the task has ended.
ProgressOwed(task, i) ==
    [callback |-> "onProgress",
     argument |-> IF task.emitted[i][2] = 0
                  THEN NaN
                  ELSE Number(CHOOSE p \in 0..100 :
                                p * task.emitted[i][2] = 100 * task.emitted[i][1])]

TerminalOk(task, call) ==
    CASE task.state = "done" ->
            call = [callback |-> "onComplete", argument |-> DownloadURL(task.ref)]
      [] task.state = "failed" ->
            call.callback = "onError" /\ call.argument[1] = "str"
      [] OTHER -> FALSE

\* C15: for every upload the consumer has received each progress report of
\* the transport, in order, as bytesTransferred / totalBytes x 100, and after
\* them, once the upload has ended, exactly one terminal call: onComplete with
\* the resolved URL or onError; nothing else and nothing after it.
C15_ProgressThenOneTerminal ==
    /\ Len(received) = Len(tasks)
    /\ \A t \in DOMAIN tasks :
          LET n == Len(tasks[t].emitted)
              ended == tasks[t].state \in {"done", "failed"}
          IN  /\ Len(received[t]) = n + (IF ended THEN 1 ELSE 0)
              /\ \A i \in 1..n : received[t][i] = ProgressOwed(tasks[t], i)
              /\ ended => TerminalOk(tasks[t], received[t][n + 1])

\* Scenario 5, scaled: two reports (50%, 100%) and the completion.
C15_Witness ==
    /\ Len(tasks) = 1
    /\ tasks[1].totalBytes = 4
    /\ received[1] = <<[callback |-> "onProgress", argument |-> Number(50)],
                       [callback |-> "onProgress", argument |-> Number(100)],
                       [callback |-> "onComplete",
                        argument |-> DownloadURL(tasks[1].ref)]>>

FieldTasks == SelectSeq(tasks, LAMBDA task : task.origin = "field")

\* C16: every file of a selection has its upload started, whatever happens to
\* the others, and every upload that completes has delivered its URL through
\* onComplete, also next to uploads that failed.
C16_FailureAbortsNothing ==
    /\ Len(FieldTasks) = Len(selected)
    /\ \A i \in DOMAIN selected :
          /\ FieldTasks[i].ref[2] = selected[i].name
          /\ FieldTasks[i].totalBytes = selected[i].size
    /\ \A t \in DOMAIN tasks :
          tasks[t].state = "done" =>
             /\ received[t] # <<>>
             /\ received[t][Len(received[t])] =
                    [callback |-> "onComplete", argument |-> DownloadURL(tasks[t].ref)]

C16_Witness ==
    /\ Len(selected) = 2 /\ Len(tasks) = 2
    /\ tasks[1].origin = "field" /\ tasks[2].origin = "field"
    /\ tasks[1].state = "failed" /\ tasks[1].emitted = <<>>
    /\ tasks[2].state = "done"
    /\ received[2][Len(received[2])].callback = "onComplete"

\* The node mapped and what decides its widget.
Mapped == mapped # NoResult
IsString == schema.core.kind = "ZodString"
IsNumber == schema.core.kind = "ZodNumber"
ChecksOf == schema.core.checks
LongMin(check) == check.kind = "min" /\ check.value[2] >= 100
Decides(check) == check.kind \in {"email", "url"} \/ LongMin(check)
Deciders == {i \in DOMAIN ChecksOf : Decides(ChecksOf[i])}
FirstDecider == CHOOSE i \in Deciders : \A j \in Deciders : i <= j
Scanned == IF Deciders = {} THEN DOMAIN ChecksOf ELSE 1..FirstDecider

\* C17 as stated: a string with a min-length check of 100 or more maps to
\* textarea, whatever its other checks and their order.
C17_LongMinIsTextarea ==
    Mapped /\ IsString /\ (\E i \in DOMAIN ChecksOf : LongMin(ChecksOf[i])) =>
        mapped.type = "textarea"

\* C17 as amended: it does when no email or url check is declared before
\* that min-length check.
C17_LongMinFirstIsTextarea ==
    Mapped /\ IsString =>
        \A i \in DOMAIN ChecksOf :
            /\ LongMin(ChecksOf[i])
            /\ \A j \in 1..(i - 1) : ChecksOf[j].kind \notin {"email", "url"}
            => /\ mapped.type = "textarea"
               /\ Has(mapped.config, "minLength")
               /\ mapped.config["minLength"][2] >= 100

C17_Witness ==
    /\ Mapped /\ IsString
    /\ ChecksOf = <<Check("max", Number(200)), Check("min", Number(100)),
                    Check("email", Null)>>
    /\ mapped.type = "textarea"

\* C18: the widget of a string is that of its first deciding check (email,
\* url, min-length of 100 or more) and text without one; the scan ends there:
\* config holds what the checks up to that one wrote and nothing of the later
\* ones.
C18_FirstDecidingCheck ==
    Mapped /\ IsString =>
        /\ Deciders = {} => mapped.type = "text"
        /\ Deciders # {} =>
              mapped.type = (CASE ChecksOf[FirstDecider].kind = "email" -> "email"
                               [] ChecksOf[FirstDecider].kind = "url" -> "url"
                               [] OTHER -> "textarea")
        /\ Has(mapped.config, "maxLength") <=>
              \E j \in Scanned : ChecksOf[j].kind = "max"
        /\ Has(mapped.config, "minLength") <=>
              \E j \in Scanned : ChecksOf[j].kind = "min"
        /\ Has(mapped.config, "pattern") <=>
              \E j \in Scanned : ChecksOf[j].kind \in {"uuid", "regex"}

C18_Witness ==
    /\ Mapped /\ IsString
    /\ ChecksOf = <<Check("min", Number(5)), Check("url", Null), Check("min", Number(100))>>
    /\ schema.wrappers = <<[kind |-> "ZodOptional", value |-> Null]>>
    /\ mapped.type = "url"
    /\ mapped.config = [minLength |-> Number(5), required |-> Bool(FALSE)]

\* The bound of a kind a number declares, the last one if it declares several.
Declared(kind) ==
    LET at == {i \in DOMAIN ChecksOf : ChecksOf[i].kind = kind}
    IN  IF at = {}
        THEN Undefined
        ELSE ChecksOf[CHOOSE i \in at : \A j \in at : j <= i].value

\* C19: a number maps to range, with config.min and config.max the declared
\* bounds, exactly when it declares a minimum a and a maximum b with
\* b - a <= 10, and to number otherwise.
C19_RangeExactly ==
    Mapped /\ IsNumber =>
        LET a == Declared("min")
            b == Declared("max")
        IN  IF a # Undefined /\ b # Undefined /\ b[2] - a[2] <= 10
            THEN /\ mapped.type = "range"
                 /\ mapped.config["min"] = a
                 /\ mapped.config["max"] = b
            ELSE mapped.type = "number"

C19_Witness ==
    /\ Mapped /\ IsNumber
    /\ ChecksOf = <<Check("min", Number(1)), Check("int", Null), Check("max", Number(11))>>
    /\ mapped.type = "range"
    /\ mapped.config = [min |-> Number(1), max |-> Number(11), step |-> Number(1)]

FieldTypes ==
    {"text", "email", "password", "url", "tel", "number", "range", "textarea", "select",
     "radio", "checkbox", "file", "date", "datetime-local", "time", "stars", "array",
     "object", "record", "switch", "color"}

Unrecognized ==
    /\ schema.core.kind \notin RecognizedKinds
    /\ ~(schema.core.kind = "ZodType" /\ schema.core.cls = "File")

\* C20: every node, whatever wrappers are nested around it, maps to a widget
\* type, the one of the concrete node below the wrappers, and to text when
\* the kind of that node is not recognized.
C20_MappingTotal ==
    Mapped =>
        /\ mapped.type \in FieldTypes
        /\ mapped.type = MapConcrete(schema.core).type
        /\ \A k \in DOMAIN MapConcrete(schema.core).config :
              /\ Has(mapped.config, k)
              /\ mapped.config[k] = MapConcrete(schema.core).config[k]
        /\ Unrecognized => mapped.type = "text"

C20_Witness ==
    /\ Mapped
    /\ schema.wrappers = <<[kind |-> "ZodEffects", value |-> Null],
                           [kind |-> "ZodDefault", value |-> Str("d")]>>
    /\ schema.core.kind = "ZodLazy"
    /\ mapped = Field("text", [defaultValue |-> Str("d")])

\* C27: a binding with a collection and no initial documentId creates at most
\* one document, however many saves it makes and however they overlap.
C27_CreateAtMostOnce ==
    cfg.collection /\ cfg.documentId = NoId =>
        Cardinality(DOMAIN store \ {ExistingDoc}) <= 1

\* C29: of a mounted binding, saving is true exactly while a save that has
\* started has not finished.
C29_SavingWhileInFlight ==
    mounted => (saving <=> saves # <<>>)

InFlight == {t \in DOMAIN tasks : tasks[t].state \in {"running", "resolving"}}

\* The references a field value holds.
Held(value) ==
    IF value[1] = "arr" THEN {value[2][i] : i \in DOMAIN value[2]} ELSE {}

\* C28: with multiple, once every upload of a selection has completed, the
\* field holds the reference of each of them and those it held before.
C28_AllReferencesKept ==
    /\ multiple
    /\ selected # <<>>
    /\ \A t \in DOMAIN tasks : tasks[t].origin = "field" => tasks[t].state = "done"
    => \A t \in DOMAIN tasks :
          tasks[t].origin = "field" =>
             /\ DownloadURL(tasks[t].ref) \in Held(fieldValue)
             /\ Held(tasks[t].closure) \subseteq Held(fieldValue)

(********************** properties of the schema parser *******************)
Analyzed == analysis # NotCalled

Fields == analysis[2].fields

Shape == schema.core.shape

\* an optional or nullable wrapper anywhere in the chain of wrappers
OptionalWrapped(zodType) ==
    \E i \in DOMAIN zodType.wrappers :
        zodType.wrappers[i].kind \in {"ZodOptional", "ZodNullable"}

\* C21: a parsed field is not required exactly when an optional or nullable
\* wrapper is anywhere in the wrappers of its schema, a default alone leaves it
\* required, and the required of its merged config equals the flag.
C21_RequiredIffNotOptional ==
    Analyzed =>
        \A i \in DOMAIN Fields :
            /\ Fields[i].required = ~OptionalWrapped(Shape[i].schema)
            /\ Fields[i].config["required"] = Bool(Fields[i].required)

C21_Witness ==
    /\ Analyzed /\ Len(Fields) = 2
    /\ Len(Shape[1].schema.wrappers) = 1
    /\ Shape[1].schema.wrappers[1].kind = "ZodDefault"
    /\ Fields[1].required
    /\ Shape[2].schema.wrappers = <<[kind |-> "ZodNullable", value |-> Null]>>
    /\ ~Fields[2].required

C21_WitnessInnerOptional ==
    /\ Analyzed /\ Len(Fields) = 1
    /\ Len(Shape[1].schema.wrappers) = 2
    /\ Shape[1].schema.wrappers[1].kind = "ZodDefault"
    /\ Shape[1].schema.wrappers[2].kind = "ZodOptional"
    /\ ~Fields[1].required
    /\ Fields[1].config["required"] = Bool(FALSE)

\* The complexity the fields of a shape are said to have.
SaidComplexity(fields, shape) ==
    IF \/ Len(fields) > 20
       \/ \E i \in DOMAIN fields :
             fields[i].type = "object" /\ Len(shape[i].schema.core.shape) > 5
    THEN "complex"
    ELSE IF \/ \E i \in DOMAIN fields : fields[i].type \in {"array", "object"}
            \/ Len(fields) > 10
         THEN "moderate"
         ELSE "simple"

\* C22: an analyzed schema is complex when it has more than 20 fields or an
\* object field whose nested shape has more than 5 properties, otherwise
\* moderate when it has an array or object field or more than 10 fields,
\* otherwise simple; a schema that is no object has no fields and is simple.
C22_ComplexityAsSaid ==
    Analyzed =>
        IF IsObject(schema)
        THEN analysis[2].complexity = SaidComplexity(Fields, Shape)
        ELSE Fields = <<>> /\ analysis[2].complexity = "simple"

\* What holds instead: the size of a nested shape decides nothing.
C22_NestedSizeIgnored ==
    Analyzed /\ IsObject(schema) =>
        analysis[2].complexity =
            IF Len(Fields) > 20 THEN "complex"
            ELSE IF Len(Fields) > 10
                    \/ \E i \in DOMAIN Fields : Fields[i].type \in {"array", "object"}
                 THEN "moderate" ELSE "simple"

Synthesized == defaults # NotCalled

Validated == validation # NotCalled

\* a default wrapper anywhere in the chain of wrappers
DefaultWrapped(zodType) ==
    \E i \in DOMAIN zodType.wrappers : zodType.wrappers[i].kind = "ZodDefault"

\* The value the key of a property is said to get, Undefined for no key.
RECURSIVE SaidDefaults(_)
SaidDefault(zodType) ==
    IF DefaultWrapped(zodType)
    THEN DefaultFor_Resolved(zodType)
    ELSE IF zodType.core.kind = "ZodObject"
         THEN Obj(SaidDefaults(Node(<<>>, zodType.core)))
         ELSE DefaultFor_Resolved(zodType)

SaidDefaults(zodType) ==
    [key \in {k \in Keys(zodType) : SaidDefault(PropertyOf(zodType, k)) # Undefined} |->
        SaidDefault(PropertyOf(zodType, key))]

AllOptionalOrDefault(zodType) ==
    \A i \in DOMAIN zodType.core.shape :
        \/ OptionalWrapped(zodType.core.shape[i].schema)
        \/ DefaultWrapped(zodType.core.shape[i].schema)

\* no refinement of the schema throws
NothingThrows(zodType) ==
    \A i \in DOMAIN zodType.core.shape :
        \A j \in DOMAIN zodType.core.shape[i].schema.wrappers :
            zodType.core.shape[i].schema.wrappers[j] # ThrowingEffect

\* C24: validating what the synthesizer made of an object schema whose every
\* property is optional, nullable or has a declared default, and none of whose
\* refinements throws, succeeds with no errors.
C24_RoundTrip ==
    /\ Validated /\ IsObject(schema) /\ AllOptionalOrDefault(schema)
    /\ NothingThrows(schema)
    /\ candidate = Obj(generateDefaultValues(schema))
    => validation[2].success /\ validation[2].errors = <<>>

\* The round trip of a schema whose single property is a nullable string.
C24_NullableFails ==
    /\ Validated
    /\ Shape = <<Property("f1", Node(<<[kind |-> "ZodNullable", value |-> Null]>>,
                                      ConcreteNode("ZodString", <<>>, <<>>)))>>
    /\ candidate = Obj(EmptyObject)
    /\ candidate = Obj(generateDefaultValues(schema))
    /\ ~validation[2].success
    /\ validation[2].errors =
          <<[field |-> "f1", message |-> "Required", code |-> "invalid_type",
             path |-> <<"f1">>]>>

\* C25: a validation returns a result: success with the data and no errors
\* when the parse finds no issue; failure with one error for each issue, its
\* field the segments of the path of the issue joined with dots; and failure
\* with the single error of field root and code custom when the parse throws.
C25_ValidateTotal ==
    Validated =>
        LET result == safeParse(schema, candidate)
            outcome == validation[2]
        IN  CASE result.status = "thrown" ->
                    /\ ~outcome.success /\ Len(outcome.errors) = 1
                    /\ outcome.errors[1].field = "root"
                    /\ outcome.errors[1].code = "custom"
              [] result.status = "valid" ->
                    /\ outcome.success /\ outcome.errors = <<>>
                    /\ outcome.data = result.data
              [] OTHER ->
                    /\ ~outcome.success
                    /\ Len(outcome.errors) = Len(result.issues)
                    /\ Len(result.issues) > 0
                    /\ \A i \in DOMAIN result.issues :
                          /\ outcome.errors[i].code = result.issues[i].code
                          /\ outcome.errors[i].path = result.issues[i].path
                          /\ Len(result.issues[i].path) = 2 =>
                                outcome.errors[i].field =
                                    result.issues[i].path[1] \o "." \o result.issues[i].path[2]
                          /\ Len(result.issues[i].path) = 1 =>
                                outcome.errors[i].field = result.issues[i].path[1]
                          /\ Len(result.issues[i].path) = 0 => outcome.errors[i].field = ""

\* an issue of a nested property
C25_WitnessNestedIssue ==
    /\ Validated /\ ~validation[2].success
    /\ \E i \in DOMAIN validation[2].errors :
          /\ validation[2].errors[i].field = "f1.n1"
          /\ validation[2].errors[i].code = "invalid_type"
          /\ validation[2].errors[i].path = <<"f1", "n1">>

\* a refinement that throws
C25_Witness ==
    /\ Validated /\ safeParse(schema, candidate).status = "thrown"
    /\ validation[2] = RootError

(******************* properties of conditional visibility *****************)
Rendered == visibleFields # NotCalled

\* the rule of a field, when it has one
HasRule(name) == Has(fieldDefs[name], "showWhen") /\ fieldDefs[name]["showWhen"] # Null

RuleOf(name) == fieldDefs[name]["showWhen"][2]

\* the current value of the field a rule depends on
DependentValue(name) ==
    IF RuleOf(name).field[2] \in DOMAIN formValues
    THEN formValues[RuleOf(name).field[2]]
    ELSE Undefined

\* the same primitive value, which NaN is not even of itself
SameValue(name) ==
    /\ DependentValue(name) = RuleOf(name).value
    /\ DependentValue(name) # NaN
    /\ DependentValue(name)[1] # "arr"

KnownOperators ==
    {Str("equals"), Str("not-equals"), Str("contains"), Str("greater-than"),
     Str("less-than")}

\* C26: the visibility map has one entry for each field; a field without
\* rule is visible; under equals, or no operator, a field is visible exactly
\* when the current value of the field it depends on strictly equals the
\* expected value, under not-equals exactly when it does not, and under an
\* operator the hook does not know it is visible whatever the values are.
C26_VisibilityByRule ==
    Rendered =>
        /\ DOMAIN visibleFields[2] = DOMAIN fieldDefs
        /\ \A name \in DOMAIN fieldDefs :
            LET isVisible == visibleFields[2][name]
            IN  IF ~HasRule(name)
                THEN isVisible
                ELSE /\ ~Has(RuleOf(name), "operator") => (isVisible <=> SameValue(name))
                     /\ Has(RuleOf(name), "operator") =>
                          /\ RuleOf(name).operator = Str("equals") =>
                                (isVisible <=> SameValue(name))
                          /\ RuleOf(name).operator = Str("not-equals") =>
                                (isVisible <=> ~SameValue(name))
                          /\ RuleOf(name).operator \notin KnownOperators => isVisible

\* the phone number shown once the preference is the phone, after it was hidden
C26_Witness ==
    /\ Rendered
    /\ HasRule("phoneNumber")
    /\ RuleOf("phoneNumber") = ShowWhen("contactPreference", Str("phone"), Str("equals"))
    /\ formValues = [contactPreference |-> Str("phone")]
    /\ visibleFields[2] = [contactPreference |-> TRUE, phoneNumber |-> TRUE]

\* a rule with a misspelt operator, whose expected value the form does not have
C26_WitnessUnknownOperator ==
    /\ Rendered
    /\ HasRule("phoneNumber")
    /\ RuleOf("phoneNumber") = ShowWhen("contactPreference", Str("phone"), Str("Equals"))
    /\ formValues = [contactPreference |-> Str("email")]
    /\ visibleFields[2]["phoneNumber"]

\* a rule without operator and a value of another type than the expected one
C26_WitnessStrict ==
    /\ Rendered
    /\ HasRule("phoneNumber")
    /\ RuleOf("phoneNumber") = ShowWhen("contactPreference", Number(5), Undefined)
    /\ formValues = [contactPreference |-> Str("5")]
    /\ ~visibleFields[2]["phoneNumber"]

\* C30: uploading is true exactly while an upload started through the
\* instance has not reached its terminal event.
C30_UploadingWhileInFlight ==
    uploading <=> InFlight # {}

====
